---- MODULE Spec2Model ----
(***************************************************************************)
(* Verification model of the TPWFC worker: the content-integrity codec     *)
(* (pkg/metadata), the markdown timeline row parser (internal/crawler/     *)
(* parsers) and the concurrent event uploader (internal/payload).          *)
(*                                                                         *)
(* Text is modelled as a sequence of tokens.  For the metadata codec the   *)
(* tokens are the pieces the regular expression of the codec can tell      *)
(* apart: the two halves of the start tag, the end tag, a newline, an      *)
(* ordinary character and the KEY: value lines that Sign writes.           *)
(***************************************************************************)
EXTENDS Integers, Sequences, FiniteSets, TLC

VARIABLES
    docs,        \* codec: docs[1] is the input text, docs[i+1] the text after the i-th operation
    ops,         \* codec: the operations applied so far
    flag,        \* codec: the validated argument handed to Sign
    clock,       \* codec: time.Now() as a counter
    verdict,     \* codec: error returned by the last Verify ("none" before any)
    report,      \* codec: ValidationResult.IsValid of the last ValidateIntegrity
    rowIn,       \* row parser: the arguments of two calls of parseTableRow
    rowOut,      \* row parser: what the calls returned
    tDoc,        \* table parser: the lines of the document
    tPos,        \* table parser: index of the next line to read
    events,      \* table parser: events emitted so far
    currentDate, \* table parser: the running date
    inTable,     \* table parser: between a start and an end marker
    colMap,      \* table parser: column map of the current table
    origin,      \* table parser: for each emitted event, the line it came from
    pair,        \* translation: a document and its translation
    parsed,      \* translation: the events parsed from each
    timeline,    \* upload: the IDs of data.Events
    cms,         \* upload: the fire events stored in the CMS; a record's ID is its index
    pc,          \* upload: where each goroutine is
    existingID,  \* upload: what findEntityID returned to each goroutine
    outcome,     \* upload: what uploadEvent returned to each goroutine
    sem,         \* upload: number of tokens in the semaphore channel
    mu,          \* upload: the goroutine holding the mutex, 0 when free
    result,      \* upload: the counters of UploadResult
    mainPc,      \* upload: where Upload itself is
    faults,      \* upload: CMS requests that have failed
    callIn,      \* call: the function called and its argument
    callOut,     \* call: what the call returned
    sources,     \* crawl: the enabled sources the URLManager was built from
    maxAttempts, \* crawl: retryPolicy.MaxAttempts
    um,          \* crawl: the fields of the URLManager
    returned,    \* crawl: what each call of NextURL returned
    crawlPc,     \* crawl: where the fetch loop is
    scrapeAttempt, \* crawl: the loop variable attempt of ScrapeWithMetrics
    requests     \* crawl: the HTTP requests sent, each with the server's answer

codecVars == <<docs, ops, flag, clock, verdict, report>>

rowVars == <<rowIn, rowOut>>

tableVars == <<tDoc, tPos, events, currentDate, inTable, colMap, origin>>

pairVars == <<pair, parsed>>

uploadVars == <<timeline, cms, pc, existingID, outcome, sem, mu, result, mainPc, faults>>

callVars == <<callIn, callOut>>

crawlVars == <<sources, maxAttempts, um, returned, crawlPc, scrapeAttempt, requests>>

vars == <<codecVars, rowVars, tableVars, pairVars, uploadVars, callVars, crawlVars>>

----------------------------------------------------------------------------
(* Bounds *)

MaxLen == 4        \* longest input text, in tokens
MaxOps == 3        \* operations applied to one text
MaxEdits == 1      \* edits among them

----------------------------------------------------------------------------
(* pkg/metadata: tokens of a text *)

Tok(k) == [k |-> k, s |-> "", h |-> <<>>]

TagStartL == Tok("<!-- META")          \* first half of TagStart
TagStartR == Tok("DATA_START")         \* second half of TagStart
TagEnd    == Tok("METADATA_END -->")
NL        == Tok("\n")
Ch        == Tok("x")                  \* any character that is neither white space nor part of a tag

TagStart == <<TagStartL, TagStartR>>

ValidationLine(s) == [k |-> "VALIDATION", s |-> s, h |-> <<>>]
LastModifyLine(t) == [k |-> "LAST_MODIFY", s |-> ToString(t), h |-> <<>>]
HashLine(h)       == [k |-> "HASH", s |-> "", h |-> h]
VersionLine(s)    == [k |-> "VERSION", s |-> s, h |-> <<>>]

KeyNames == {"VALIDATION", "LAST_MODIFY", "HASH", "VERSION"}

Alphabet == {TagStartL, TagStartR, TagEnd, NL, Ch}

RECURSIVE SeqsUpTo(_, _)
SeqsUpTo(S, n) ==
    IF n = 0 THEN {<<>>}
    ELSE LET shorter == SeqsUpTo(S, n - 1)
         IN  shorter \cup {Append(q, e) : q \in {r \in shorter : Len(r) = n - 1}, e \in S}

Texts == SeqsUpTo(Alphabet, MaxLen)

\* sha256.Sum256 + hex.EncodeToString: an injective function of its input,
\* never the empty string.
sha256(c) == <<c>>

ErrNone            == "ok"
ErrNoMetadataBlock == "no metadata block found"
ErrNoHashFound     == "no hash found in metadata"
ErrHashMismatch    == "hash mismatch"

----------------------------------------------------------------------------
(* pkg/metadata: metadataRegex                                             *)
(*   (?s)<!--\s*METADATA_START\s*\n(.*?)\n\s*METADATA_END\s*-->            *)

\* index of the first token at or after j that is not a newline
RECURSIVE RunEnd(_, _)
RunEnd(t, j) == IF j <= Len(t) /\ t[j] = NL THEN RunEnd(t, j + 1) ELSE j

\* first index of the run of newlines that ends at j
RECURSIVE RunStart(_, _, _)
RunStart(t, j, lo) == IF j - 1 >= lo /\ t[j - 1] = NL THEN RunStart(t, j - 1, lo) ELSE j

NoMatch == [found |-> FALSE, s |-> 0, e |-> 0, body |-> <<>>]

\* The match of metadataRegex that starts at token i, if there is one, in the
\* order the leftmost-first engine tries them: \s* greedy, (.*?) lazy.
MatchAt(t, i) ==
    IF ~(i + 2 <= Len(t) /\ t[i] = TagStartL /\ t[i + 1] = TagStartR /\ t[i + 2] = NL)
    THEN NoMatch
    ELSE LET bs   == RunEnd(t, i + 2)
             ends == {q \in (bs + 1)..Len(t) : t[q] = TagEnd /\ t[q - 1] = NL}
         IN  IF ends # {}
             THEN LET q == CHOOSE x \in ends : \A y \in ends : x <= y
                      p == RunStart(t, q - 1, bs)
                  IN  [found |-> TRUE, s |-> i, e |-> q, body |-> SubSeq(t, bs, p - 1)]
             ELSE IF bs - (i + 2) >= 2 /\ bs <= Len(t) /\ t[bs] = TagEnd
             THEN [found |-> TRUE, s |-> i, e |-> bs, body |-> <<>>]
             ELSE NoMatch

\* regexp.FindStringSubmatch from position from: the leftmost match
RECURSIVE FindFrom(_, _)
FindFrom(t, from) ==
    IF from > Len(t) THEN NoMatch
    ELSE LET m == MatchAt(t, from)
         IN  IF m.found THEN m ELSE FindFrom(t, from + 1)

\* regexp.ReplaceAllString(content, ""): every non-overlapping match removed
RECURSIVE ReplaceAll(_, _)
ReplaceAll(t, from) ==
    LET m == FindFrom(t, from)
    IN  IF ~m.found THEN SubSeq(t, from, Len(t))
        ELSE SubSeq(t, from, m.s - 1) \o ReplaceAll(t, m.e + 1)

\* strings.TrimRight(s, "\n")
RECURSIVE TrimRight(_)
TrimRight(t) ==
    IF Len(t) > 0 /\ t[Len(t)] = NL THEN TrimRight(SubSeq(t, 1, Len(t) - 1)) ELSE t

----------------------------------------------------------------------------
(* pkg/metadata: Extract, CalculateHash, Sign, Verify *)

ZeroMeta == [LastModify |-> "", Version |-> "", Hash |-> <<>>, Validation |-> FALSE]

\* strings.Split(body, "\n")
RECURSIVE SplitLines(_)
SplitLines(b) ==
    LET nls == {i \in 1..Len(b) : b[i] = NL}
    IN  IF nls = {} THEN <<b>>
        ELSE LET i == CHOOSE x \in nls : \A y \in nls : x <= y
             IN  <<SubSeq(b, 1, i - 1)>> \o SplitLines(SubSeq(b, i + 1, Len(b)))

\* One line of the block: SplitN(TrimSpace(line), ":", 2) and the switch on
\* the key.  Only the KEY: value tokens hold a colon.  Text before the first
\* of them makes the key unknown; text after it is part of the value.
ParseLine(meta, line) ==
    LET kvs == {i \in 1..Len(line) : line[i].k \in KeyNames}
    IN  IF kvs = {} THEN meta
        ELSE LET c     == CHOOSE x \in kvs : \A y \in kvs : x <= y
                 alone == c = Len(line)
                 rest  == SubSeq(line, c + 1, Len(line))
             IN  IF c # 1 THEN meta
                 ELSE CASE line[1].k = "VALIDATION" ->
                             [meta EXCEPT !.Validation = alone /\ line[1].s = "TRUE"]
                        [] line[1].k = "LAST_MODIFY" ->
                             IF alone THEN [meta EXCEPT !.LastModify = line[1].s] ELSE meta
                        [] line[1].k = "HASH" ->
                             [meta EXCEPT !.Hash = IF alone THEN line[1].h
                                                   ELSE line[1].h \o <<rest, rest>>]
                        [] line[1].k = "VERSION" ->
                             [meta EXCEPT !.Version = IF alone THEN line[1].s ELSE "?"]

RECURSIVE ParseLines(_, _)
ParseLines(meta, lines) ==
    IF lines = <<>> THEN meta
    ELSE ParseLines(ParseLine(meta, Head(lines)), Tail(lines))

\* every match of metadataRegex, in order
RECURSIVE FindAll(_, _)
FindAll(t, from) ==
    LET m == FindFrom(t, from)
    IN  IF ~m.found THEN <<>> ELSE <<m>> \o FindAll(t, m.e + 1)

\* an Extract that reads the fields of every block, later blocks overriding
\* earlier ones
RECURSIVE ParseBlocks(_, _)
ParseBlocks(meta, matches) ==
    IF matches = <<>> THEN meta
    ELSE ParseBlocks(ParseLines(meta, SplitLines(Head(matches).body)), Tail(matches))

ExtractMergesBlocks(content) ==
    LET matches == FindAll(content, 1)
        cleanContent == TrimRight(ReplaceAll(content, 1))
    IN  IF matches = <<>>
        THEN [found |-> FALSE, meta |-> ZeroMeta, clean |-> cleanContent]
        ELSE [found |-> TRUE,
              meta  |-> ParseBlocks(ZeroMeta, matches),
              clean |-> cleanContent]

Extract(content) ==
    LET match == FindFrom(content, 1)
        cleanContent == TrimRight(ReplaceAll(content, 1))
    IN  IF ~match.found
        THEN [found |-> FALSE, meta |-> ZeroMeta, clean |-> cleanContent]
        ELSE [found |-> TRUE,
              meta  |-> ParseLines(ZeroMeta, SplitLines(match.body)),
              clean |-> cleanContent]

CalculateHash(content) == sha256(Extract(content).clean)

NewBlock(valStr, now, hash) ==
    <<NL, NL>> \o TagStart \o
    <<NL, ValidationLine(valStr), NL, LastModifyLine(now), NL, HashLine(hash), NL, TagEnd>>

\* a Sign that carries the VERSION of the block it replaces into the new one
SignKeepsVersion(content, validated, now) ==
    LET x     == Extract(content)
        hash  == CalculateHash(x.clean)
        block == NewBlock(IF validated THEN "TRUE" ELSE "FALSE", now, hash)
    IN  IF x.found /\ x.meta.Version # ""
        THEN x.clean \o SubSeq(block, 1, Len(block) - 1)
                     \o <<VersionLine(x.meta.Version), NL, TagEnd>>
        ELSE x.clean \o block

Sign(content, validated, now) ==
    LET clean == Extract(content).clean
        hash  == CalculateHash(clean)
    IN  clean \o NewBlock(IF validated THEN "TRUE" ELSE "FALSE", now, hash)

\* Verify without the empty-hash test
VerifySkipsEmptyHash(content) ==
    LET x == Extract(content)
    IN  IF ~x.found THEN [valid |-> FALSE, err |-> ErrNoMetadataBlock]
        ELSE IF CalculateHash(x.clean) # x.meta.Hash
             THEN [valid |-> FALSE, err |-> ErrHashMismatch]
        ELSE [valid |-> TRUE, err |-> ErrNone]

Verify(content) ==
    LET x == Extract(content)
    IN  IF ~x.found THEN [valid |-> FALSE, err |-> ErrNoMetadataBlock]
        ELSE IF x.meta.Hash = <<>> THEN [valid |-> FALSE, err |-> ErrNoHashFound]
        ELSE IF CalculateHash(x.clean) # x.meta.Hash
             THEN [valid |-> FALSE, err |-> ErrHashMismatch]
        ELSE [valid |-> TRUE, err |-> ErrNone]

\* internal/validator: ValidateIntegrity, as ValidationResult.IsValid
ValidateIntegrity(content) == Verify(content).valid

----------------------------------------------------------------------------
(* internal/crawler/parsers: strings                                       *)
(* A cell, a date or a time is a sequence of characters; a character       *)
(* outside ASCII is written as its code point, "U+65E5".                   *)

Empty == <<>>

IsDigit(c) == c \in {"0", "1", "2", "3", "4", "5", "6", "7", "8", "9"}

IsSpace(c) == c = " "

\* strings.TrimSpace
RECURSIVE TrimSpace(_)
TrimSpace(s) ==
    IF s = Empty THEN s
    ELSE IF IsSpace(s[1]) THEN TrimSpace(Tail(s))
    ELSE IF IsSpace(s[Len(s)]) THEN TrimSpace(SubSeq(s, 1, Len(s) - 1))
    ELSE s

\* strings.HasPrefix
HasPrefix(s, p) == Len(s) >= Len(p) /\ SubSeq(s, 1, Len(p)) = p

\* the positions at which sub occurs in s
Occurrences(s, sub) ==
    {i \in 1..(Len(s) - Len(sub) + 1) : SubSeq(s, i, i + Len(sub) - 1) = sub}

\* strings.Contains
Contains(s, sub) == Occurrences(s, sub) # {}

Min(S) == CHOOSE x \in S : \A y \in S : x <= y

Max(S) == CHOOSE x \in S : \A y \in S : x >= y

\* strings.ReplaceAll(s, old, "")
RECURSIVE RemoveAll(_, _)
RemoveAll(s, old) ==
    IF ~Contains(s, old) THEN s
    ELSE LET i == Min(Occurrences(s, old))
         IN  SubSeq(s, 1, i - 1) \o RemoveAll(SubSeq(s, i + Len(old), Len(s)), old)

\* strings.Split(s, sep) for a one-character separator
RECURSIVE Split(_, _)
Split(s, sep) ==
    IF ~Contains(s, <<sep>>) THEN <<s>>
    ELSE LET i == Min(Occurrences(s, <<sep>>))
         IN  <<SubSeq(s, 1, i - 1)>> \o Split(SubSeq(s, i + 1, Len(s)), sep)

\* strings.Join
RECURSIVE Join(_, _)
Join(parts, sep) ==
    IF parts = <<>> THEN Empty
    ELSE IF Len(parts) = 1 THEN parts[1]
    ELSE parts[1] \o sep \o Join(Tail(parts), sep)

UpperOf(c) ==
    CASE c = "a" -> "A" [] c = "c" -> "C" [] c = "d" -> "D" [] c = "e" -> "E"
      [] c = "i" -> "I" [] c = "m" -> "M" [] c = "n" -> "N" [] c = "t" -> "T"
      [] c = "r" -> "R" [] c = "u" -> "U" [] c = "v" -> "V" [] c = "x" -> "X"
      [] OTHER -> c

\* strings.ToUpper
ToUpper(s) == [i \in 1..Len(s) |-> UpperOf(s[i])]

\* strings.EqualFold
EqualFold(a, b) == ToUpper(a) = ToUpper(b)

\* A pattern is a sequence of items; the item "\\d" stands for one digit,
\* any other item for itself.  PatAt: the pattern matches s at position i.
PatAt(s, i, pat) ==
    /\ i >= 1
    /\ i + Len(pat) - 1 <= Len(s)
    /\ \A j \in 1..Len(pat) :
          IF pat[j] = "\\d" THEN IsDigit(s[i + j - 1]) ELSE s[i + j - 1] = pat[j]

\* regexp.MatchString of an unanchored pattern
PatFound(s, pat) == \E i \in 1..Len(s) : PatAt(s, i, pat)

----------------------------------------------------------------------------
(* internal/crawler/parsers/parser.go: constants and header names *)

StatusNone  == <<"S", "T", "A", "T", "U", "S", "_", "N", "O", "N", "E">>
TimeOngoing == <<"T", "I", "M", "E", "_", "O", "N", "G", "O", "I", "N", "G">>
TimeAllDay  == <<"T", "I", "M", "E", "_", "A", "L", "L", "_", "D", "A", "Y">>

ColDate       == <<"D", "A", "T", "E">>
ColTime       == <<"T", "I", "M", "E">>
ColEvent      == <<"E", "V", "E", "N", "T">>
ColCategory   == <<"C", "A", "T", "E", "G", "O", "R", "Y">>
ColCasualties == <<"C", "A", "S", "U", "A", "L", "T", "I", "E", "S">>
ColSource     == <<"S", "O", "U", "R", "C", "E">>
ColVideo      == <<"V", "I", "D", "E", "O">>
ColPhoto      == <<"P", "H", "O", "T", "O">>
ColEnd        == <<"E", "N", "D">>

NormalizeHeader(header) ==
    LET h == ToUpper(TrimSpace(header))
    IN  CASE h \in {<<"D", "A", "T", "E">>, <<"U+65E5", "U+671F">>} -> ColDate
          [] h \in {<<"T", "I", "M", "E">>, <<"U+6642", "U+9593">>, <<"U+65F6", "U+95F4">>} -> ColTime
          [] h \in {<<"E", "V", "E", "N", "T">>, <<"U+4E8B", "U+4EF6">>, <<"D", "E", "S", "C", "R", "I", "P", "T", "I", "O", "N">>, <<"U+63CF", "U+8FF0">>} -> ColEvent
          [] h \in {<<"C", "A", "T", "E", "G", "O", "R", "Y">>, <<"U+985E", "U+5225">>, <<"U+7C7B", "U+522B">>} -> ColCategory
          [] h \in {<<"C", "A", "S", "U", "A", "L", "T", "I", "E", "S">>, <<"U+6B7B", "U+50B7", "U+72C0", "U+6CC1">>, <<"U+6B7B", "U+4F24", "U+72B6", "U+51B5">>} -> ColCasualties
          [] h \in {<<"S", "O", "U", "R", "C", "E">>, <<"S", "O", "U", "R", "C", "E", "S">>, <<"U+4F86", "U+6E90">>, <<"U+6765", "U+6E90">>} -> ColSource
          [] h \in {<<"V", "I", "D", "E", "O">>, <<"U+5F71", "U+7247">>, <<"U+89C6", "U+9891">>} -> ColVideo
          [] h \in {<<"P", "H", "O", "T", "O">>, <<"P", "H", "O", "T", "O", "S">>, <<"U+5716", "U+7247">>, <<"U+56FE", "U+7247">>, <<"P", "H", "O", "T", "O", "/", "I", "M", "A", "G", "E">>} -> ColPhoto
          [] h \in {<<"E", "N", "D">>, <<"U+7D50", "U+675F">>, <<"U+7ED3", "U+675F">>} -> ColEnd
          [] OTHER -> h

ErrNil               == "nil"
ErrInvalidRow        == "invalid row"
ErrInvalidTimeFormat == "invalid time format"

\* sha256.Sum256, hex.EncodeToString and hashStr[:12]: the first 12 hex
\* characters of the digest of data, kept as a function of data alone.
HexPrefix12(data) == [sha256 |-> data, hex |-> 12]

\* an ID that hashes date and time only
generateEventIDWithoutCategory(date, time, category) ==
    HexPrefix12(Join(<<date, time>>, <<"|">>))

generateEventID(date, time, category) ==
    HexPrefix12(Join(<<date, time, category>>, <<"|">>))

\* fmt.Sscanf(s, "%d", &num) on a run of digits
DigitValue(c) ==
    CASE c = "0" -> 0 [] c = "1" -> 1 [] c = "2" -> 2 [] c = "3" -> 3 [] c = "4" -> 4
      [] c = "5" -> 5 [] c = "6" -> 6 [] c = "7" -> 7 [] c = "8" -> 8 [] c = "9" -> 9

RECURSIVE Atoi(_)
Atoi(s) == IF s = Empty THEN 0 ELSE 10 * Atoi(SubSeq(s, 1, Len(s) - 1)) + DigitValue(s[Len(s)])

padZero(s) == IF Len(s) = 1 THEN <<"0">> \o s ELSE s

normalizeTime(timeStr) ==
    RemoveAll(RemoveAll(TrimSpace(timeStr), <<"U+5DE6", "U+53F3">>), <<"U+5DE6", "U+8F49">>)

isValidTime(timeStr) ==
    \/ timeStr = TimeAllDay
    \/ timeStr = TimeOngoing
    \/ PatFound(timeStr, <<"\\d", ":", "\\d", "\\d">>)

----------------------------------------------------------------------------
(* internal/crawler/parsers/parser.go: cell parsers *)

\* end of the run of characters satisfying P that starts at i (i - 1 if empty)
RECURSIVE DigitRunEnd(_, _)
DigitRunEnd(s, i) == IF i <= Len(s) /\ IsDigit(s[i]) THEN DigitRunEnd(s, i + 1) ELSE i - 1

RECURSIVE SpaceRunEnd(_, _)
SpaceRunEnd(s, i) == IF i <= Len(s) /\ IsSpace(s[i]) THEN SpaceRunEnd(s, i + 1) ELSE i - 1

\* a number pattern that also takes a minus sign: prefix + `:(-?\d+)`
extractStatusCodeNumberSigned(text, prefix) ==
    LET signed(i) == /\ HasPrefix(SubSeq(text, i, Len(text)), prefix \o <<":", "-">>)
                     /\ i + Len(prefix) + 2 <= Len(text)
                     /\ IsDigit(text[i + Len(prefix) + 2])
        plain(i)  == PatAt(text, i, prefix \o <<":", "\\d">>)
        hits      == {i \in 1..Len(text) : signed(i) \/ plain(i)}
    IN  IF hits = {} THEN [num |-> 0, ok |-> FALSE]
        ELSE LET i == Min(hits)
                 d == i + Len(prefix) + 1
             IN  IF signed(i)
                 THEN [num |-> 0 - Atoi(SubSeq(text, d + 1, DigitRunEnd(text, d + 1))), ok |-> TRUE]
                 ELSE [num |-> Atoi(SubSeq(text, d, DigitRunEnd(text, d))), ok |-> TRUE]

\* extractStatusCodeNumber: regexp prefix + `:(\d+)`, leftmost match
extractStatusCodeNumber(text, prefix) ==
    LET pat  == prefix \o <<":", "\\d">>
        hits == {i \in 1..Len(text) : PatAt(text, i, pat)}
    IN  IF hits = {} THEN [num |-> 0, ok |-> FALSE]
        ELSE LET d == Min(hits) + Len(prefix) + 1
             IN  [num |-> Atoi(SubSeq(text, d, DigitRunEnd(text, d))), ok |-> TRUE]

\* extractNumber: regexp `(\d+)\s*` + pattern, leftmost match.  In the
\* pattern a|b the alternation binds last: (\d+)\s*a, or b alone, and in a
\* match of b alone the group is empty and Sscanf leaves num at 0.
extractNumber(text, first, second) ==
    LET numAt(i) == /\ i <= Len(text) /\ IsDigit(text[i])
                    /\ HasPrefix(SubSeq(text, SpaceRunEnd(text, DigitRunEnd(text, i) + 1) + 1, Len(text)), first)
        altAt(i) == second # Empty /\ HasPrefix(SubSeq(text, i, Len(text)), second)
        hits     == {i \in 1..Len(text) : numAt(i) \/ altAt(i)}
    IN  IF hits = {} THEN [num |-> 0, ok |-> FALSE]
        ELSE LET i == Min(hits)
             IN  IF numAt(i) THEN [num |-> Atoi(SubSeq(text, i, DigitRunEnd(text, i))), ok |-> TRUE]
                 ELSE [num |-> 0, ok |-> TRUE]

StatusTypes ==
    << <<"D", "E", "A", "D">>, <<"I", "N", "J", "U", "R", "E", "D">>, <<"M", "I", "S", "S", "I", "N", "G">>, <<"F", "I", "R", "E", "F", "I", "G", "H", "T", "E", "R", "_", "D", "E", "A", "D">>,
       <<"F", "I", "R", "E", "F", "I", "G", "H", "T", "E", "R", "_", "I", "N", "J", "U", "R", "E", "D">>, <<"R", "E", "M", "A", "I", "N", "I", "N", "G", "_", "C", "A", "S", "E", "S">>, <<"U", "N", "I", "D", "E", "N", "T", "I", "F", "I", "E", "D">> >>

StatusUpdate == <<"S", "T", "A", "T", "U", "S", "_", "U", "P", "D", "A", "T", "E">>

\* the Items one comma-separated part of the status-code grammar adds
RECURSIVE StatusItems(_, _)
StatusItems(part, k) ==
    IF k > Len(StatusTypes) THEN <<>>
    ELSE LET ty == StatusTypes[k]
             r  == extractStatusCodeNumber(part, ty)
         IN  (IF HasPrefix(part, ty \o <<":">>) /\ r.ok
              THEN <<[Type |-> ty, Count |-> r.num]>> ELSE <<>>)
             \o StatusItems(part, k + 1)

\* the Items one clause of the legacy grammar adds
LegacyItems(part) ==
    LET dead    == extractNumber(part, <<"U+6B7B">>, Empty)
        injured == extractNumber(part, <<"U+50B7">>, Empty)
        missing == extractNumber(part, <<"U+5931", "U+8E64">>, <<"U+4E0B", "U+843D", "U+4E0D", "U+660E">>)
    IN  (IF Contains(part, <<"U+6B7B">>) /\ dead.ok
         THEN <<[Type |-> <<"D", "E", "A", "D">>, Count |-> dead.num]>> ELSE <<>>)
        \o (IF Contains(part, <<"U+50B7">>) /\ injured.ok
            THEN <<[Type |-> <<"I", "N", "J", "U", "R", "E", "D">>, Count |-> injured.num]>> ELSE <<>>)
        \o (IF (Contains(part, <<"U+5931", "U+8E64">>) \/ Contains(part, <<"U+4E0B", "U+843D", "U+4E0D", "U+660E">>)) /\ missing.ok
            THEN <<[Type |-> <<"M", "I", "S", "S", "I", "N", "G">>, Count |-> missing.num]>> ELSE <<>>)

RECURSIVE ItemsOfParts(_, _)
ItemsOfParts(parts, statusCode) ==
    IF parts = <<>> THEN <<>>
    ELSE (IF statusCode THEN StatusItems(TrimSpace(Head(parts)), 1)
          ELSE LegacyItems(TrimSpace(Head(parts))))
         \o ItemsOfParts(Tail(parts), statusCode)

parseCasualties(text) ==
    IF TrimSpace(text) = StatusNone
    THEN [Status |-> text, Raw |-> text, Items |-> <<>>]
    ELSE LET items == IF Contains(text, <<":">>)
                      THEN ItemsOfParts(Split(text, ","), TRUE)
                      ELSE ItemsOfParts(Split(text, "U+FF0C"), FALSE)
         IN  [Status |-> IF Len(items) > 0 THEN StatusUpdate ELSE text,
              Raw    |-> text,
              Items  |-> items]

\* linkPattern \[(.*?)\]\((.*?)\): the leftmost link at or after from
NoLink == [found |-> FALSE, e |-> 0, text |-> Empty, url |-> Empty]

FindLink(s, from) ==
    LET mids(i)   == {j \in (i + 1)..(Len(s) - 1) : s[j] = "]" /\ s[j + 1] = "("}
        closes(j) == {k \in (j + 2)..Len(s) : s[k] = ")"}
        opens     == {i \in from..Len(s) :
                         s[i] = "[" /\ mids(i) # {} /\ closes(Min(mids(i))) # {}}
    IN  IF opens = {} THEN NoLink
        ELSE LET i == Min(opens)
                 j == Min(mids(i))
                 k == Min(closes(j))
             IN  [found |-> TRUE, e |-> k,
                  text |-> SubSeq(s, i + 1, j - 1), url |-> SubSeq(s, j + 2, k - 1)]

\* FindAllStringSubmatch(text, -1)
RECURSIVE FindAllLinks(_, _)
FindAllLinks(s, from) ==
    LET m == FindLink(s, from)
    IN  IF ~m.found THEN <<>> ELSE <<m>> \o FindAllLinks(s, m.e + 1)

RECURSIVE PlainSources(_)
PlainSources(names) ==
    IF names = <<>> THEN <<>>
    ELSE LET name == TrimSpace(Head(names))
         IN  (IF name # Empty /\ name # StatusNone
              THEN <<[Name |-> name, URL |-> Empty]>> ELSE <<>>)
             \o PlainSources(Tail(names))

parseSources(text) ==
    IF text = Empty \/ text = StatusNone THEN <<>>
    ELSE LET matches == FindAllLinks(text, 1)
         IN  IF Len(matches) > 0
             THEN [i \in 1..Len(matches) |-> [Name |-> matches[i].text, URL |-> matches[i].url]]
             ELSE PlainSources(Split(text, ","))

RECURSIVE PlainPhotos(_)
PlainPhotos(urls) ==
    IF urls = <<>> THEN <<>>
    ELSE LET u == TrimSpace(Head(urls))
         IN  (IF u # Empty THEN <<[Caption |-> Empty, URL |-> u]>> ELSE <<>>)
             \o PlainPhotos(Tail(urls))

parsePhotos(text) ==
    IF text = Empty THEN <<>>
    ELSE LET matches == FindAllLinks(text, 1)
         IN  IF Len(matches) > 0
             THEN [i \in 1..Len(matches) |-> [Caption |-> matches[i].text, URL |-> matches[i].url]]
             ELSE IF Contains(text, <<",">>) THEN PlainPhotos(Split(text, ","))
             ELSE <<[Caption |-> Empty, URL |-> text]>>

parseVideoURL(videoStr) ==
    IF videoStr = Empty THEN Empty
    ELSE LET m == FindLink(videoStr, 1)
         IN  IF m.found THEN TrimSpace(m.url)
             ELSE IF HasPrefix(videoStr, <<"h", "t", "t", "p">>) THEN videoStr
             ELSE Empty

----------------------------------------------------------------------------
(* internal/crawler/parsers (timeline): parseTableRow *)

\* a nil column map
NilMap == [h \in {} |-> 0]

\* getCell; column indices count from 1
getCell(cells, cmap, colName) ==
    IF colName \in DOMAIN cmap /\ cmap[colName] <= Len(cells)
    THEN TrimSpace(cells[cmap[colName]])
    ELSE Empty

NoEvent == [ID |-> HexPrefix12(Empty), Date |-> Empty, Time |-> Empty, DateTime |-> Empty,
            Description |-> Empty, Category |-> Empty,
            Casualties |-> [Status |-> Empty, Raw |-> Empty, Items |-> <<>>],
            Sources |-> <<>>, VideoURL |-> Empty, Photos |-> <<>>, IsCategoryEnd |-> FALSE]

ISODatePattern == <<"\\d", "\\d", "\\d", "\\d", "-", "\\d", "\\d", "-", "\\d", "\\d">>

parseTableRow(cells, curDate, cmap) ==
    LET dateStr  == getCell(cells, cmap, ColDate)
        timeStr  == getCell(cells, cmap, ColTime)
        category == getCell(cells, cmap, ColCategory)
        endStr   == getCell(cells, cmap, ColEnd)
        date     == IF dateStr # Empty /\ PatFound(dateStr, ISODatePattern)
                    THEN dateStr ELSE curDate
    IN  IF timeStr = Empty THEN [err |-> ErrInvalidRow, event |-> NoEvent]
        ELSE IF ~isValidTime(timeStr) THEN [err |-> ErrInvalidTimeFormat, event |-> NoEvent]
        ELSE [err   |-> ErrNil,
              event |-> [ID            |-> generateEventID(date, normalizeTime(timeStr), category),
                         Date          |-> date,
                         Time          |-> timeStr,
                         DateTime      |-> IF timeStr = TimeAllDay \/ timeStr = TimeOngoing
                                           THEN date \o <<"T", "0", "0", ":", "0", "0", ":", "0", "0">>
                                           ELSE date \o <<"T">> \o normalizeTime(timeStr) \o <<":", "0", "0">>,
                         Description   |-> getCell(cells, cmap, ColEvent),
                         Casualties    |-> parseCasualties(getCell(cells, cmap, ColCasualties)),
                         Sources       |-> parseSources(getCell(cells, cmap, ColSource)),
                         Category      |-> category,
                         VideoURL      |-> parseVideoURL(getCell(cells, cmap, ColVideo)),
                         Photos        |-> parsePhotos(getCell(cells, cmap, ColPhoto)),
                         IsCategoryEnd |-> EqualFold(endStr, <<"x">>) \/ EqualFold(endStr, <<"t", "r", "u", "e">>)]]

----------------------------------------------------------------------------
(* internal/crawler/parsers (timeline): ParseMarkdownTable                 *)
(* A line of the document is kept by what the loop tells apart: a table    *)
(* start or end marker, a blank line, a date heading (month and day        *)
(* captured), or a pipe row |c1|c2|...|cn| given by its cells.             *)

StartMarker == [kind |-> "start", cells |-> <<>>, month |-> Empty, day |-> Empty]
EndMarker   == [kind |-> "end", cells |-> <<>>, month |-> Empty, day |-> Empty]
BlankLine   == [kind |-> "blank", cells |-> <<>>, month |-> Empty, day |-> Empty]
Heading(m, d) == [kind |-> "heading", cells |-> <<>>, month |-> m, day |-> d]
Row(cells)  == [kind |-> "row", cells |-> cells, month |-> Empty, day |-> Empty]

\* line == "" || HasPrefix(line, "|-") || HasPrefix(line, "| -") || Contains(line, "|---")
IsSkipped(line) ==
    \/ line.kind = "blank"
    \/ /\ line.kind = "row"
       /\ \/ HasPrefix(line.cells[1], <<"-">>)
          \/ HasPrefix(line.cells[1], <<" ", "-">>)
          \/ \E i \in 1..Len(line.cells) : HasPrefix(line.cells[i], <<"-", "-", "-">>)

\* strings.Split(line, "|") of |c1|...|cn|, then the first and the last
\* element dropped when they are blank
CleanCells(cells) ==
    LET all   == <<Empty>> \o cells \o <<Empty>>
        front == IF Len(all) > 0 /\ TrimSpace(all[1]) = Empty THEN Tail(all) ELSE all
    IN  IF Len(front) > 0 /\ TrimSpace(front[Len(front)]) = Empty
        THEN SubSeq(front, 1, Len(front) - 1) ELSE front

IsHeader(cleanCells) ==
    \E i \in 1..Len(cleanCells) :
        NormalizeHeader(cleanCells[i]) \in {ColDate, ColTime, ColEvent}

\* colMap[NormalizeHeader(cell)] = idx for each cell in turn: the last cell
\* of a name wins
HeaderMap(cleanCells) ==
    [h \in {NormalizeHeader(cleanCells[i]) : i \in 1..Len(cleanCells)} |->
        Max({i \in 1..Len(cleanCells) : NormalizeHeader(cleanCells[i]) = h})]

HeadingDate(line) == <<"2", "0", "2", "5", "-">> \o padZero(line.month) \o <<"-">> \o padZero(line.day)

ParserStart == [events |-> <<>>, currentDate |-> Empty, inTable |-> FALSE, colMap |-> NilMap]

\* a loop in which a rejected row with a dated DATE cell still moves the
\* running date
TableStepDatesRejectedRows(st, line) ==
    IF line.kind = "start" THEN [st EXCEPT !.inTable = TRUE, !.colMap = NilMap]
    ELSE IF line.kind = "end" THEN [st EXCEPT !.inTable = FALSE]
    ELSE IF IsSkipped(line) THEN st
    ELSE IF st.inTable
    THEN IF line.kind # "row" THEN st
         ELSE LET cleanCells == CleanCells(line.cells)
              IN  IF IsHeader(cleanCells) THEN [st EXCEPT !.colMap = HeaderMap(cleanCells)]
                  ELSE IF st.colMap = NilMap THEN st
                  ELSE LET r == parseTableRow(cleanCells, st.currentDate, st.colMap)
                           d == getCell(cleanCells, st.colMap, ColDate)
                       IN  IF r.err # ErrNil
                           THEN [st EXCEPT !.currentDate = IF PatFound(d, ISODatePattern)
                                                           THEN d ELSE st.currentDate]
                           ELSE [st EXCEPT !.events = Append(st.events, r.event),
                                           !.currentDate = IF r.event.Date # Empty
                                                           THEN r.event.Date ELSE st.currentDate]
    ELSE IF line.kind = "heading" THEN [st EXCEPT !.currentDate = HeadingDate(line)]
    ELSE st

\* one iteration of the loop over the lines
TableStep(st, line) ==
    IF line.kind = "start" THEN [st EXCEPT !.inTable = TRUE, !.colMap = NilMap]
    ELSE IF line.kind = "end" THEN [st EXCEPT !.inTable = FALSE]
    ELSE IF IsSkipped(line) THEN st
    ELSE IF st.inTable
    THEN IF line.kind # "row" THEN st
         ELSE LET cleanCells == CleanCells(line.cells)
              IN  IF IsHeader(cleanCells) THEN [st EXCEPT !.colMap = HeaderMap(cleanCells)]
                  ELSE IF st.colMap = NilMap THEN st
                  ELSE LET r == parseTableRow(cleanCells, st.currentDate, st.colMap)
                       IN  IF r.err # ErrNil THEN st
                           ELSE [st EXCEPT !.events = Append(st.events, r.event),
                                           !.currentDate = IF r.event.Date # Empty
                                                           THEN r.event.Date ELSE st.currentDate]
    ELSE IF line.kind = "heading" THEN [st EXCEPT !.currentDate = HeadingDate(line)]
    ELSE st

RECURSIVE ParseFrom(_, _)
ParseFrom(st, lines) ==
    IF lines = <<>> THEN st ELSE ParseFrom(TableStep(st, Head(lines)), Tail(lines))

ParseMarkdownTable(lines) == ParseFrom(ParserStart, lines).events

----------------------------------------------------------------------------
(* Inputs of the row parser *)

Blank    == <<" ">>
Date1    == <<"2", "0", "2", "5", "-", "0", "1", "-", "0", "1">>
Date2    == <<"2", "0", "2", "5", "-", "0", "1", "-", "0", "2">>
DateNote == <<"x", "2", "0", "2", "5", "-", "0", "1", "-", "0", "1">>          \* a date with text around it
Time1    == <<"1", "2", ":", "0", "0">>
TimeAbout == <<"1", "2", ":", "0", "0", "U+5DE6", "U+53F3">>            \* "about 12:00"
TimeWord == <<"n", "o", "o", "n">>
TimeLong == <<"a", "1", "2", ":", "3", "4", "5">>
Fire     == <<"f", "i", "r", "e">>
Smoke    == <<"s", "m", "o", "k", "e">>
CatA     == <<"A">>
CatB     == <<"B">>
SrcS     == <<"s">>
SrcR     == <<"r">>

HeaderRow == Row(<<ColDate, ColTime, ColEvent, ColCategory, ColSource, ColEnd>>)

SeparatorRow == Row(<<<<"-", "-", "-">>, <<"-", "-", "-">>, <<"-", "-", "-">>, <<"-", "-", "-">>, <<"-", "-", "-">>, <<"-", "-", "-">>>>)

DataRow(d, t, e, c, s, x) == Row(<<d, t, e, c, s, x>>)

DateCells     == {Blank, Date1, DateNote}
TimeCells     == {Empty, Time1, TimeAbout, TimeWord, TimeLong, TimeAllDay}
EventCells    == {Fire, Smoke}
CategoryCells == {CatA, CatB}
EndCells      == {Empty, <<"x">>}

RowCells ==
    {<<d, t, e, c, SrcS, x>> : d \in DateCells, t \in TimeCells, e \in EventCells,
                               c \in CategoryCells, x \in EndCells}

----------------------------------------------------------------------------
(* Each specification drives one component; the others stay idle *)

CodecIdle ==
    /\ docs = <<Empty>> /\ ops = <<>> /\ flag = FALSE
    /\ clock = 1 /\ verdict = "none" /\ report = TRUE

RowIdle == rowIn = <<>> /\ rowOut = <<>>

TableIdle ==
    /\ tDoc = <<>> /\ tPos = 1 /\ events = <<>> /\ currentDate = Empty
    /\ inTable = FALSE /\ colMap = NilMap /\ origin = <<>>

PairIdle == pair = <<>> /\ parsed = <<>>

UploadIdle ==
    /\ timeline = <<>> /\ cms = <<>> /\ pc = <<>> /\ existingID = <<>>
    /\ outcome = <<>> /\ sem = 0 /\ mu = 0 /\ result = <<>>
    /\ mainPc = "idle" /\ faults = 0

CallIdle == callIn = <<>> /\ callOut = <<>>

CrawlIdle ==
    /\ sources = <<>> /\ maxAttempts = 0 /\ um = <<>> /\ returned = <<>>
    /\ crawlPc = "idle" /\ scrapeAttempt = 0 /\ requests = <<>>

notCrawl == <<codecVars, rowVars, tableVars, pairVars, uploadVars, callVars>>

notCodec == <<rowVars, tableVars, pairVars, uploadVars, callVars, crawlVars>>

notRow == <<codecVars, tableVars, pairVars, uploadVars, callVars, crawlVars>>

notTable == <<codecVars, rowVars, pairVars, uploadVars, callVars, crawlVars>>

notPair == <<codecVars, rowVars, tableVars, uploadVars, callVars, crawlVars>>

notUpload == <<codecVars, rowVars, tableVars, pairVars, callVars, crawlVars>>

notCall == <<codecVars, rowVars, tableVars, pairVars, uploadVars, crawlVars>>

----------------------------------------------------------------------------
(* The codec driven by a caller: sign, verify, edit *)

Last(q) == q[Len(q)]

Edits == Cardinality({i \in 1..Len(ops) : ops[i] = "edit"})

CodecInit ==
    /\ \E t \in Texts : docs = <<t>>
    /\ ops = <<>>
    /\ flag \in BOOLEAN
    /\ clock = 1
    /\ verdict = "none"
    /\ report = TRUE
    /\ RowIdle /\ TableIdle /\ PairIdle /\ UploadIdle /\ CallIdle /\ CrawlIdle

CanAct == Len(ops) < MaxOps /\ (IF ops = <<>> THEN TRUE ELSE Last(ops) # "verify")

SignAct ==
    /\ CanAct
    /\ docs' = Append(docs, Sign(Last(docs), flag, clock))
    /\ ops' = Append(ops, "sign")
    /\ clock' = clock + 1
    /\ UNCHANGED <<flag, verdict, report>>
    /\ UNCHANGED notCodec

VerifyAct ==
    /\ CanAct
    /\ verdict' = Verify(Last(docs)).err
    /\ report' = ValidateIntegrity(Last(docs))
    /\ docs' = Append(docs, Last(docs))
    /\ ops' = Append(ops, "verify")
    /\ UNCHANGED <<flag, clock>>
    /\ UNCHANGED notCodec

\* an editor appends one token to the document
EditAct ==
    /\ CanAct
    /\ Edits < MaxEdits
    /\ \E tok \in Alphabet : docs' = Append(docs, Append(Last(docs), tok))
    /\ ops' = Append(ops, "edit")
    /\ UNCHANGED <<flag, clock, verdict, report>>
    /\ UNCHANGED notCodec

CodecNext == SignAct \/ VerifyAct \/ EditAct

SpecCodec == CodecInit /\ [][CodecNext]_vars

----------------------------------------------------------------------------
(* A signed document that is edited before it is verified *)

MaxTamperLen == 2  \* longest text that is signed and then tampered with
MaxInsert == 2     \* longest piece of text an edit inserts

BlockLen == Len(NewBlock("TRUE", 1, <<>>)) - 2   \* TagStart .. TagEnd, without the two newlines

Inserts == SeqsUpTo(Alphabet, MaxInsert) \ {<<>>}

TamperInit ==
    /\ \E t \in SeqsUpTo(Alphabet, MaxTamperLen) : docs = <<t>>
    /\ ops = <<>>
    /\ flag \in BOOLEAN
    /\ clock = 1
    /\ verdict = "none"
    /\ report = TRUE
    /\ RowIdle /\ TableIdle /\ PairIdle /\ UploadIdle /\ CallIdle /\ CrawlIdle

\* The text before and after the block of a freshly signed document is
\* changed: a piece is inserted before the block, a token before the block is
\* deleted, or a piece is added after the block.  The block itself is kept.
\* The operation is logged as "reflow" when only trailing newlines of the
\* text before or after the block changed, as "tamper" otherwise.
TamperAct ==
    /\ ops = <<"sign">>
    /\ LET d    == Last(docs)
           bs   == Len(d) - BlockLen + 1
           pre  == SubSeq(d, 1, bs - 1)
           blk  == SubSeq(d, bs, Len(d))
           kind(pre2, post2) ==
               IF TrimRight(pre2) = TrimRight(pre) /\ TrimRight(post2) = <<>>
               THEN "reflow" ELSE "tamper"
       IN  \/ \E pos \in 0..Len(pre), ins \in Inserts :
                 LET pre2 == SubSeq(pre, 1, pos) \o ins \o SubSeq(pre, pos + 1, Len(pre))
                 IN  /\ docs' = Append(docs, pre2 \o blk)
                     /\ ops' = Append(ops, kind(pre2, <<>>))
           \/ \E pos \in 1..Len(pre) :
                 LET pre2 == SubSeq(pre, 1, pos - 1) \o SubSeq(pre, pos + 1, Len(pre))
                 IN  /\ docs' = Append(docs, pre2 \o blk)
                     /\ ops' = Append(ops, kind(pre2, <<>>))
           \/ \E ins \in Inserts :
                 /\ docs' = Append(docs, d \o ins)
                 /\ ops' = Append(ops, kind(pre, ins))
    /\ UNCHANGED <<flag, clock, verdict, report>>
    /\ UNCHANGED notCodec

TamperSign == ops = <<>> /\ SignAct

TamperVerify == Len(ops) = 2 /\ VerifyAct

TamperNext == TamperSign \/ TamperAct \/ TamperVerify

SpecTamper == TamperInit /\ [][TamperNext]_vars

----------------------------------------------------------------------------
(* Claims about the metadata codec *)

JustDid(a, b) == Len(ops) >= 2 /\ ops[Len(ops) - 1] = a /\ ops[Len(ops)] = b

\* C1: for every text and every validated flag, verify(sign(text, v))
\* succeeds, also for text that carries a block, fragments of the markers or
\* trailing newlines.
C1_RoundTrip == JustDid("sign", "verify") => (verdict = ErrNone /\ report)

\* C2: the hash depends only on the clean content: hash(text) is the SHA-256
\* of extract(text).cleanContent, so hash(sign(text, v)) = hash(text) and the
\* embedded block is never part of its own hash input.
C2_HashOfCleanOnly ==
    (ops # <<>> /\ Last(ops) = "sign") =>
        LET before == docs[Len(docs) - 1]
            after  == Last(docs)
        IN  /\ CalculateHash(before) = sha256(Extract(before).clean)
            /\ CalculateHash(after) = CalculateHash(before)

\* C3: signing is idempotent on clean content:
\* extract(sign(sign(text, v), v)).cleanContent = extract(sign(text, v)).cleanContent.
C3_SignIdempotent ==
    JustDid("sign", "sign") =>
        Extract(Last(docs)).clean = Extract(docs[Len(docs) - 1]).clean

\* the text has a span the block pattern accepts: a start tag followed by a
\* newline, and later an end tag preceded by another newline
HasBlock(t) ==
    \E i \in 1..Len(t), q \in 1..Len(t) :
        /\ i + 3 <= q - 1
        /\ t[i] = TagStartL /\ t[i + 1] = TagStartR /\ t[i + 2] = NL
        /\ t[q - 1] = NL /\ t[q] = TagEnd

\* C4: verify fails with NoMetadataBlock exactly when the text has no block;
\* otherwise with NoHashFound exactly when the block's HASH is empty;
\* otherwise with HashMismatch exactly when the hash recomputed over the
\* clean content differs from the stored HASH; otherwise it succeeds.
C4_VerifyErrors ==
    (ops # <<>> /\ Last(ops) = "verify") =>
        LET d == Last(docs)
            x == Extract(d)
        IN  verdict = IF ~HasBlock(d) THEN ErrNoMetadataBlock
                      ELSE IF x.meta.Hash = <<>> THEN ErrNoHashFound
                      ELSE IF sha256(Extract(x.clean).clean) # x.meta.Hash THEN ErrHashMismatch
                      ELSE ErrNone

\* a text with a block that holds no HASH line has been verified
C4_Witness ==
    /\ ops # <<>> /\ Last(ops) = "verify"
    /\ HasBlock(Last(docs))
    /\ verdict = ErrNoHashFound

\* C5: starting from a signed document, any change to the text outside its
\* metadata block, other than adding or removing trailing newlines, makes
\* verify fail with HashMismatch, and the failure is reported to the caller.
C5_EditsDetected ==
    (ops = <<"sign", "tamper", "verify">>) => (verdict = ErrHashMismatch /\ ~report)

----------------------------------------------------------------------------
(* parseTableRow called on two rows *)

RowMaps == {HeaderMap(HeaderRow.cells), HeaderMap(<<ColDate, ColEvent, ColCategory>>)}

RowInit ==
    /\ \E a \in RowCells, b \in RowCells, d \in {Empty, Date2}, m \in RowMaps :
          rowIn = [a |-> a, b |-> b, date |-> d, map |-> m]
    /\ rowOut = <<>>
    /\ CodecIdle /\ TableIdle /\ PairIdle /\ UploadIdle /\ CallIdle /\ CrawlIdle

ParseRowsAct ==
    /\ rowOut = <<>>
    /\ rowOut' = [a |-> parseTableRow(rowIn.a, rowIn.date, rowIn.map),
                  b |-> parseTableRow(rowIn.b, rowIn.date, rowIn.map)]
    /\ UNCHANGED rowIn
    /\ UNCHANGED notRow

RowNext == ParseRowsAct

SpecRow == RowInit /\ [][RowNext]_vars

----------------------------------------------------------------------------
(* ParseMarkdownTable reading a document line by line *)

MaxLines == 3      \* lines of a document after its opening lines

TableLines ==
    {StartMarker, EndMarker, HeaderRow, SeparatorRow, Heading(<<"1">>, <<"2">>)}
    \cup {DataRow(d, Time1, Fire, CatA, SrcS, Empty) : d \in {Blank, Date1, DateNote}}
    \cup {DataRow(Date2, TimeWord, Fire, CatA, SrcS, Empty)}

Openings == {<<>>, <<StartMarker, HeaderRow>>}

TableInit ==
    /\ \E o \in Openings, body \in SeqsUpTo(TableLines, MaxLines) : tDoc = o \o body
    /\ tPos = 1
    /\ events = ParserStart.events
    /\ currentDate = ParserStart.currentDate
    /\ inTable = ParserStart.inTable
    /\ colMap = ParserStart.colMap
    /\ origin = <<>>
    /\ CodecIdle /\ RowIdle /\ PairIdle /\ UploadIdle /\ CallIdle /\ CrawlIdle

NextLine == tDoc[tPos]

IsRowLine(line) == line.kind = "row" /\ ~IsSkipped(line)

IsHeaderLine(line) == IsRowLine(line) /\ IsHeader(CleanCells(line.cells))

\* the branch of the loop body that a line takes
LineKinds == {"start", "end", "skipped", "header", "data", "ignored", "outside"}

LineKind(line, inside) ==
    IF line.kind = "start" THEN "start"
    ELSE IF line.kind = "end" THEN "end"
    ELSE IF IsSkipped(line) THEN "skipped"
    ELSE IF ~inside THEN "outside"
    ELSE IF IsHeaderLine(line) THEN "header"
    ELSE IF IsRowLine(line) THEN "data"
    ELSE "ignored"

\* the loop body applied to line tPos, which takes branch k
ReadLine(k) ==
    /\ tPos <= Len(tDoc)
    /\ LineKind(NextLine, inTable) = k
    /\ LET st == TableStep([events |-> events, currentDate |-> currentDate,
                            inTable |-> inTable, colMap |-> colMap], NextLine)
       IN  /\ events' = st.events
           /\ currentDate' = st.currentDate
           /\ inTable' = st.inTable
           /\ colMap' = st.colMap
           /\ origin' = IF Len(st.events) > Len(events) THEN Append(origin, tPos) ELSE origin
    /\ tPos' = tPos + 1
    /\ UNCHANGED tDoc
    /\ UNCHANGED notTable

TableNext == \E k \in LineKinds : ReadLine(k)

SpecTable == TableInit /\ [][TableNext]_vars

----------------------------------------------------------------------------
(* A document and its translation, both parsed *)

MaxRows == 2       \* data rows of the translated table

EventWord == <<"E", "v", "e", "n", "t">>

\* the rows of the original, and for each the rows a translator may write:
\* same DATE, TIME and CATEGORY cells, other EVENT and SOURCE cells
OriginalRows == {<<d, Time1, Fire, CatA, SrcS, Empty>> : d \in {Blank, Date1}}

Translations(row) ==
    {[row EXCEPT ![3] = e, ![5] = s] : e \in {Fire, Smoke, EventWord}, s \in {SrcS, SrcR}}

RowsToLines(rows) == [i \in 1..Len(rows) |-> Row(rows[i])]

PairInit ==
    /\ \E a \in SeqsUpTo(OriginalRows, MaxRows) \ {<<>>} :
       \E b \in [1..Len(a) -> UNION {Translations(r) : r \in OriginalRows}] :
          /\ \A i \in 1..Len(a) : b[i] \in Translations(a[i])
          /\ pair = [a |-> <<StartMarker, HeaderRow>> \o RowsToLines(a) \o <<EndMarker>>,
                     b |-> <<StartMarker, HeaderRow>> \o RowsToLines(b) \o <<EndMarker>>]
    /\ parsed = [done |-> {}, a |-> <<>>, b |-> <<>>]
    /\ CodecIdle /\ RowIdle /\ TableIdle /\ UploadIdle /\ CallIdle /\ CrawlIdle

ParseOriginal ==
    /\ "a" \notin parsed.done
    /\ parsed' = [parsed EXCEPT !.done = @ \cup {"a"}, !.a = ParseMarkdownTable(pair.a)]
    /\ UNCHANGED pair
    /\ UNCHANGED notPair

ParseTranslation ==
    /\ "b" \notin parsed.done
    /\ parsed' = [parsed EXCEPT !.done = @ \cup {"b"}, !.b = ParseMarkdownTable(pair.b)]
    /\ UNCHANGED pair
    /\ UNCHANGED notPair

PairNext == ParseOriginal \/ ParseTranslation

SpecTranslate == PairInit /\ [][PairNext]_vars

----------------------------------------------------------------------------
(* Upload: one goroutine per event, find-by-ID then create-or-update *)

MaxEvents == 3     \* events of the uploaded timeline
MaxFaults == 1     \* CMS requests that fail during one Upload

maxConcurrentUploads == 5

EventIDs == {"e1", "e2"}

Workers == 1..Len(timeline)

\* the CMS answers a find-by-eventId query with the matching documents in
\* storage order; findEntityID keeps the ID of the first, or 0
findEntityID(store, eventId) ==
    LET docsFound == {j \in 1..Len(store) : store[j].eventId = eventId}
    IN  IF docsFound = {} THEN 0 ELSE Min(docsFound)

NewResult == [EventsCreated |-> 0, EventsUpdated |-> 0, Errors |-> 0]

UploadInit ==
    /\ timeline \in SeqsUpTo(EventIDs, MaxEvents) \ {<<>>}
    /\ cms \in {<<>>, <<[eventId |-> "e1", writes |-> 1]>>}
    /\ pc = [i \in Workers |-> "start"]
    /\ existingID = [i \in Workers |-> 0]
    /\ outcome = [i \in Workers |-> [created |-> FALSE, err |-> FALSE]]
    /\ sem = 0
    /\ mu = 0
    /\ result = NewResult
    /\ mainPc = "incident"
    /\ faults = 0
    /\ CodecIdle /\ RowIdle /\ TableIdle /\ PairIdle /\ CallIdle /\ CrawlIdle

\* createOrFindIncident succeeded; the loop has started every goroutine
IncidentReady ==
    /\ mainPc = "incident"
    /\ mainPc' = "wait"
    /\ UNCHANGED <<timeline, cms, pc, existingID, outcome, sem, mu, result, faults>>
    /\ UNCHANGED notUpload

\* createOrFindIncident failed: Upload returns (nil, err)
IncidentFails ==
    /\ mainPc = "incident"
    /\ faults < MaxFaults
    /\ faults' = faults + 1
    /\ mainPc' = "failed"
    /\ UNCHANGED <<timeline, cms, pc, existingID, outcome, sem, mu, result>>
    /\ UNCHANGED notUpload

\* the goroutine without the semaphore: it starts uploadEvent at once
AcquireUnbounded(i) ==
    /\ mainPc = "wait"
    /\ pc[i] = "start"
    /\ sem' = sem + 1
    /\ pc' = [pc EXCEPT ![i] = "find"]
    /\ UNCHANGED <<timeline, cms, existingID, outcome, mu, result, mainPc, faults>>
    /\ UNCHANGED notUpload

\* sem <- struct{}{}
Acquire(i) ==
    /\ mainPc = "wait"
    /\ pc[i] = "start"
    /\ sem < maxConcurrentUploads
    /\ sem' = sem + 1
    /\ pc' = [pc EXCEPT ![i] = "find"]
    /\ UNCHANGED <<timeline, cms, existingID, outcome, mu, result, mainPc, faults>>
    /\ UNCHANGED notUpload

\* uploadEvent: the find query answers
Find(i) ==
    /\ pc[i] = "find"
    /\ existingID' = [existingID EXCEPT ![i] = findEntityID(cms, timeline[i])]
    /\ pc' = [pc EXCEPT ![i] = "write"]
    /\ UNCHANGED <<timeline, cms, outcome, sem, mu, result, mainPc, faults>>
    /\ UNCHANGED notUpload

\* uploadEvent: the find query fails
FindFails(i) ==
    /\ pc[i] = "find"
    /\ faults < MaxFaults
    /\ faults' = faults + 1
    /\ outcome' = [outcome EXCEPT ![i] = [created |-> FALSE, err |-> TRUE]]
    /\ pc' = [pc EXCEPT ![i] = "lock"]
    /\ UNCHANGED <<timeline, cms, existingID, sem, mu, result, mainPc>>
    /\ UNCHANGED notUpload

\* uploadEvent: existingID > 0, the update mutation is applied
Update(i) ==
    /\ pc[i] = "write"
    /\ existingID[i] > 0
    /\ cms' = [cms EXCEPT ![existingID[i]].writes = @ + 1]
    /\ outcome' = [outcome EXCEPT ![i] = [created |-> FALSE, err |-> FALSE]]
    /\ pc' = [pc EXCEPT ![i] = "lock"]
    /\ UNCHANGED <<timeline, existingID, sem, mu, result, mainPc, faults>>
    /\ UNCHANGED notUpload

\* uploadEvent: existingID = 0, the create mutation is applied
Create(i) ==
    /\ pc[i] = "write"
    /\ existingID[i] = 0
    /\ cms' = Append(cms, [eventId |-> timeline[i], writes |-> 1])
    /\ outcome' = [outcome EXCEPT ![i] = [created |-> TRUE, err |-> FALSE]]
    /\ pc' = [pc EXCEPT ![i] = "lock"]
    /\ UNCHANGED <<timeline, existingID, sem, mu, result, mainPc, faults>>
    /\ UNCHANGED notUpload

\* uploadEvent: the mutation fails
WriteFails(i) ==
    /\ pc[i] = "write"
    /\ faults < MaxFaults
    /\ faults' = faults + 1
    /\ outcome' = [outcome EXCEPT ![i] = [created |-> existingID[i] = 0, err |-> TRUE]]
    /\ pc' = [pc EXCEPT ![i] = "lock"]
    /\ UNCHANGED <<timeline, cms, existingID, sem, mu, result, mainPc>>
    /\ UNCHANGED notUpload

\* mu.Lock()
Lock(i) ==
    /\ pc[i] = "lock"
    /\ mu = 0
    /\ mu' = i
    /\ pc' = [pc EXCEPT ![i] = "record"]
    /\ UNCHANGED <<timeline, cms, existingID, outcome, sem, result, mainPc, faults>>
    /\ UNCHANGED notUpload

\* the goroutine returning on an error without appending it to Errors
RecordDropsError(i) ==
    /\ pc[i] = "record"
    /\ result' = IF outcome[i].err THEN result
                 ELSE IF outcome[i].created THEN [result EXCEPT !.EventsCreated = @ + 1]
                 ELSE [result EXCEPT !.EventsUpdated = @ + 1]
    /\ mu' = 0
    /\ pc' = [pc EXCEPT ![i] = "release"]
    /\ UNCHANGED <<timeline, cms, existingID, outcome, sem, mainPc, faults>>
    /\ UNCHANGED notUpload

\* the counters are updated under the lock, then the deferred mu.Unlock()
Record(i) ==
    /\ pc[i] = "record"
    /\ result' = IF outcome[i].err THEN [result EXCEPT !.Errors = @ + 1]
                 ELSE IF outcome[i].created THEN [result EXCEPT !.EventsCreated = @ + 1]
                 ELSE [result EXCEPT !.EventsUpdated = @ + 1]
    /\ mu' = 0
    /\ pc' = [pc EXCEPT ![i] = "release"]
    /\ UNCHANGED <<timeline, cms, existingID, outcome, sem, mainPc, faults>>
    /\ UNCHANGED notUpload

\* the deferred <-sem and wg.Done()
Release(i) ==
    /\ pc[i] = "release"
    /\ sem' = sem - 1
    /\ pc' = [pc EXCEPT ![i] = "done"]
    /\ UNCHANGED <<timeline, cms, existingID, outcome, mu, result, mainPc, faults>>
    /\ UNCHANGED notUpload

\* wg.Wait() returns; Upload returns (result, nil)
Return ==
    /\ mainPc = "wait"
    /\ \A i \in Workers : pc[i] = "done"
    /\ mainPc' = "done"
    /\ UNCHANGED <<timeline, cms, pc, existingID, outcome, sem, mu, result, faults>>
    /\ UNCHANGED notUpload

UploadNext ==
    \/ IncidentReady
    \/ IncidentFails
    \/ \E i \in Workers : Acquire(i)
    \/ \E i \in Workers : Find(i)
    \/ \E i \in Workers : FindFails(i)
    \/ \E i \in Workers : Update(i)
    \/ \E i \in Workers : Create(i)
    \/ \E i \in Workers : WriteFails(i)
    \/ \E i \in Workers : Lock(i)
    \/ \E i \in Workers : Record(i)
    \/ \E i \in Workers : Release(i)
    \/ Return

SpecUpload == UploadInit /\ [][UploadNext]_vars

----------------------------------------------------------------------------
(* Upload of a timeline with more events than the semaphore has slots *)

MaxBurst == 6      \* events of the timeline; maxConcurrentUploads is 5

\* every event but the last is stored already, the last is new
BurstInit ==
    /\ timeline = [i \in 1..MaxBurst |-> IF i = MaxBurst THEN "e2" ELSE "e1"]
    /\ cms = <<[eventId |-> "e1", writes |-> 1]>>
    /\ pc = [i \in Workers |-> "start"]
    /\ existingID = [i \in Workers |-> 0]
    /\ outcome = [i \in Workers |-> [created |-> FALSE, err |-> FALSE]]
    /\ sem = 0
    /\ mu = 0
    /\ result = NewResult
    /\ mainPc = "incident"
    /\ faults = 0
    /\ CodecIdle /\ RowIdle /\ TableIdle /\ PairIdle /\ CallIdle /\ CrawlIdle

SpecBurst == BurstInit /\ [][UploadNext]_vars

----------------------------------------------------------------------------
(* internal/crawler/parsers (timeline): ParseDuration *)

ErrInvalidDurationFormat == "invalid duration format"

\* fmt.Sscanf(s, "%d", &n) with the error dropped: leading spaces skipped,
\* an optional sign, then the digits; n keeps its value when no digit follows
ScanInto(s, n) ==
    LET from   == SpaceRunEnd(s, 1) + 1
        signed == from <= Len(s) /\ s[from] \in {"+", "-"}
        first  == IF signed THEN from + 1 ELSE from
        last   == DigitRunEnd(s, first)
        v      == Atoi(SubSeq(s, first, last))
    IN  IF last < first THEN n
        ELSE IF signed /\ s[from] = "-" THEN 0 - v ELSE v

ScanInt(s) == ScanInto(s, 0)

\* a ParseDuration that takes three components as dd:hh:mm
ParseDurationAcceptsThree(durationStr) ==
    LET parts == Split(durationStr, ":")
        zero  == [Raw |-> durationStr, Days |-> 0, Hours |-> 0, Minutes |-> 0, Seconds |-> 0]
    IN  IF Len(parts) = 2
        THEN [err |-> ErrNil,
              duration |-> [zero EXCEPT !.Hours = ScanInt(parts[1]),
                                        !.Minutes = ScanInt(parts[2])]]
        ELSE IF Len(parts) \notin {3, 4}
        THEN [err |-> ErrInvalidDurationFormat, duration |-> zero]
        ELSE [err |-> ErrNil,
              duration |-> [Raw |-> durationStr, Days |-> ScanInt(parts[1]),
                            Hours |-> ScanInt(parts[2]), Minutes |-> ScanInt(parts[3]),
                            Seconds |-> IF Len(parts) = 4 THEN ScanInt(parts[4]) ELSE 0]]

ParseDuration(durationStr) ==
    LET parts == Split(durationStr, ":")
        zero  == [Raw |-> durationStr, Days |-> 0, Hours |-> 0, Minutes |-> 0, Seconds |-> 0]
    IN  IF Cardinality(Occurrences(durationStr, <<":">>)) = 1
        THEN [err |-> ErrNil,
              duration |-> [zero EXCEPT !.Hours = ScanInt(parts[1]),
                                        !.Minutes = ScanInt(parts[2])]]
        ELSE IF Len(parts) # 4
        THEN [err |-> ErrInvalidDurationFormat, duration |-> zero]
        ELSE [err |-> ErrNil,
              duration |-> [Raw |-> durationStr, Days |-> ScanInt(parts[1]),
                            Hours |-> ScanInt(parts[2]), Minutes |-> ScanInt(parts[3]),
                            Seconds |-> ScanInt(parts[4])]]

----------------------------------------------------------------------------
(* internal/crawler/parsers (timeline): the sections of a document         *)
(* Besides the lines of the table parser a document holds section markers  *)
(* <!-- NAME_START --> and <!-- NAME_END -->, and lines of plain text.      *)

SectionStart(name) == [kind |-> "secStart", cells |-> <<name>>, month |-> Empty, day |-> Empty]
SectionEnd(name)   == [kind |-> "secEnd", cells |-> <<name>>, month |-> Empty, day |-> Empty]
TextLine(text)     == [kind |-> "text", cells |-> <<text>>, month |-> Empty, day |-> Empty]

BasicInfoSection == <<"B", "A", "S", "I", "C", "_", "I", "N", "F", "O">>
FireCauseSection == <<"F", "I", "R", "E", "_", "C", "A", "U", "S", "E">>
SeveritySection  == <<"S", "E", "V", "E", "R", "I", "T", "Y">>
KeyStatsSection  == <<"K", "E", "Y", "_", "S", "T", "A", "T", "I", "S", "T", "I", "C", "S">>
SourcesSection   == <<"S", "O", "U", "R", "C", "E", "S">>
NotesSection     == <<"N", "O", "T", "E", "S">>

IsStartOf(line, name) == line.kind = "secStart" /\ line.cells[1] = name

IsEndOf(line, name) == line.kind = "secEnd" /\ line.cells[1] = name

\* the characters of a line that is no comment
LineText(line) ==
    IF line.kind = "row" THEN <<"|">> \o Join(line.cells, <<"|">>) \o <<"|">>
    ELSE IF line.kind = "text" THEN line.cells[1]
    ELSE IF line.kind = "heading"
    THEN <<"*", "*">> \o line.month \o <<"U+6708">> \o line.day \o <<"U+65E5", "*", "*">>
    ELSE Empty

\* strings.Split(s, sep) for a separator of any length
RECURSIVE SplitOn(_, _)
SplitOn(s, sep) ==
    IF ~Contains(s, sep) THEN <<s>>
    ELSE LET i == Min(Occurrences(s, sep))
         IN  <<SubSeq(s, 1, i - 1)>> \o SplitOn(SubSeq(s, i + Len(sep), Len(s)), sep)

\* HasPrefix(line, "|") && !Contains(line, "項目") && !Contains(line, "KEY")
\* && !HasPrefix(line, "|---"), and len(cells) >= 3 after the split
IsKeyValueRow(line) ==
    /\ line.kind = "row"
    /\ Len(line.cells) >= 1
    /\ ~Contains(LineText(line), <<"U+9805", "U+76EE">>)
    /\ ~Contains(LineText(line), <<"K", "E", "Y">>)
    /\ ~HasPrefix(LineText(line), <<"|", "-", "-", "-">>)

KeyOf(line) == TrimSpace(line.cells[1])

ValueOf(line) == IF Len(line.cells) >= 2 THEN TrimSpace(line.cells[2]) ELSE Empty

ZeroDuration == [Raw |-> Empty, Days |-> 0, Hours |-> 0, Minutes |-> 0, Seconds |-> 0]

ZeroBasicInfo ==
    [IncidentID |-> Empty, IncidentName |-> Empty, DateRange |-> Empty, StartDate |-> Empty,
     EndDate |-> Empty, Location |-> Empty, Map |-> [Name |-> Empty, URL |-> Empty],
     DisasterLevel |-> Empty, Sources |-> Empty, Duration |-> ZeroDuration,
     AffectedBuildings |-> 0]

\* case "DURATION", with a result that drops a text ParseDuration rejects
DurationFieldDropsRejected(value) ==
    LET r == ParseDuration(value)
    IN  IF r.err = ErrNil THEN r.duration ELSE ZeroDuration

\* case "DURATION": the parsed duration, or the raw text when parsing fails
DurationField(value) ==
    LET r == ParseDuration(value)
    IN  IF r.err = ErrNil THEN r.duration ELSE [ZeroDuration EXCEPT !.Raw = value]

\* case "DATE_RANGE"
DateRangeField(info, value) ==
    LET dash  == SplitOn(value, <<" ", "-", " ">>)
        slash == SplitOn(value, <<"/">>)
        parts == IF Contains(value, <<" ", "-", " ">>) THEN dash
                 ELSE IF Contains(value, <<"/">>) THEN slash ELSE <<>>
    IN  IF Len(parts) = 2
        THEN [info EXCEPT !.DateRange = value, !.StartDate = TrimSpace(parts[1]),
                          !.EndDate = TrimSpace(parts[2])]
        ELSE [info EXCEPT !.DateRange = value]

\* case "MAP"
MapField(value) ==
    LET m == FindLink(value, 1)
    IN  IF m.found THEN [Name |-> m.text, URL |-> m.url]
        ELSE IF HasPrefix(value, <<"h", "t", "t", "p">>) THEN [Name |-> Empty, URL |-> value]
        ELSE [Name |-> value, URL |-> Empty]

\* the switch on the key of a row of the section
BasicInfoRow(info, key, value) ==
    CASE key = <<"I", "N", "C", "I", "D", "E", "N", "T", "_", "I", "D">> -> [info EXCEPT !.IncidentID = value]
      [] key = <<"I", "N", "C", "I", "D", "E", "N", "T", "_", "N", "A", "M", "E">> -> [info EXCEPT !.IncidentName = value]
      [] key = <<"D", "A", "T", "E", "_", "R", "A", "N", "G", "E">> -> DateRangeField(info, value)
      [] key = <<"L", "O", "C", "A", "T", "I", "O", "N">> -> [info EXCEPT !.Location = value]
      [] key = <<"M", "A", "P">> -> [info EXCEPT !.Map = MapField(value)]
      [] key = <<"D", "I", "S", "A", "S", "T", "E", "R", "_", "L", "E", "V", "E", "L">> -> [info EXCEPT !.DisasterLevel = value]
      [] key = <<"D", "U", "R", "A", "T", "I", "O", "N">> -> [info EXCEPT !.Duration = DurationField(value)]
      [] key = <<"A", "F", "F", "E", "C", "T", "E", "D", "_", "B", "U", "I", "L", "D", "I", "N", "G", "S">> ->
            [info EXCEPT !.AffectedBuildings = ScanInto(value, info.AffectedBuildings)]
      [] key = <<"S", "O", "U", "R", "C", "E", "S">> -> [info EXCEPT !.Sources = value]
      [] OTHER -> info

\* parseBasicInfo: no end marker closes the section
RECURSIVE parseBasicInfoFrom(_, _, _)
parseBasicInfoFrom(info, inSection, lines) ==
    IF lines = <<>> THEN info
    ELSE LET line == Head(lines)
         IN  IF IsStartOf(line, BasicInfoSection) THEN parseBasicInfoFrom(info, TRUE, Tail(lines))
             ELSE IF inSection /\ IsKeyValueRow(line)
             THEN parseBasicInfoFrom(BasicInfoRow(info, KeyOf(line), ValueOf(line)), TRUE, Tail(lines))
             ELSE parseBasicInfoFrom(info, inSection, Tail(lines))

parseBasicInfo(lines) == parseBasicInfoFrom(ZeroBasicInfo, FALSE, lines)

\* parseSection: the trimmed lines between the markers, joined by spaces;
\* the loop ends at the first end marker
RECURSIVE SectionContent(_, _, _)
SectionContent(inSection, lines, name) ==
    IF lines = <<>> THEN <<>>
    ELSE LET line    == Head(lines)
             trimmed == TrimSpace(LineText(line))
         IN  IF IsStartOf(line, name) THEN SectionContent(TRUE, Tail(lines), name)
             ELSE IF IsEndOf(line, name) THEN <<>>
             ELSE (IF inSection /\ trimmed # Empty THEN <<trimmed>> ELSE <<>>)
                  \o SectionContent(inSection, Tail(lines), name)

parseSection(lines, name) == Join(SectionContent(FALSE, lines, name), <<" ">>)

\* parseFirefighterCasualties: "INJURED:x,DEAD:x"
RECURSIVE FirefighterParts(_, _)
FirefighterParts(c, parts) ==
    IF parts = <<>> THEN c
    ELSE LET part == TrimSpace(Head(parts))
             dead == IF HasPrefix(part, <<"D", "E", "A", "D", ":">>)
                     THEN [c EXCEPT !.Deaths = ScanInto(SubSeq(part, 6, Len(part)), c.Deaths)]
                     ELSE c
             both == IF HasPrefix(part, <<"I", "N", "J", "U", "R", "E", "D", ":">>)
                     THEN [dead EXCEPT !.Injured = ScanInto(SubSeq(part, 9, Len(part)), dead.Injured)]
                     ELSE dead
         IN  FirefighterParts(both, Tail(parts))

parseFirefighterCasualties(value) ==
    IF value = Empty THEN [Deaths |-> 0, Injured |-> 0]
    ELSE FirefighterParts([Deaths |-> 0, Injured |-> 0], Split(value, ","))

ZeroKeyStatistics ==
    [FinalDeaths |-> 0, FirefighterCasualties |-> [Deaths |-> 0, Injured |-> 0],
     FirefightersDeployed |-> 0, FireVehicles |-> 0, HelpCases |-> 0,
     HelpCasesProcessed |-> 0, ShelterUsers |-> 0, MissingPersons |-> 0,
     UnidentifiedBodies |-> 0]

KeyStatisticsRow(stats, key, value) ==
    CASE key = <<"F", "I", "N", "A", "L", "_", "D", "E", "A", "T", "H", "S">> -> [stats EXCEPT !.FinalDeaths = ScanInto(value, @)]
      [] key = <<"F", "I", "R", "E", "F", "I", "G", "H", "T", "E", "R", "_", "C", "A", "S", "U", "A", "L", "T", "I", "E", "S">> ->
            [stats EXCEPT !.FirefighterCasualties = parseFirefighterCasualties(value)]
      [] key = <<"F", "I", "R", "E", "F", "I", "G", "H", "T", "E", "R", "S", "_", "D", "E", "P", "L", "O", "Y", "E", "D">> -> [stats EXCEPT !.FirefightersDeployed = ScanInto(value, @)]
      [] key = <<"F", "I", "R", "E", "_", "V", "E", "H", "I", "C", "L", "E", "S">> -> [stats EXCEPT !.FireVehicles = ScanInto(value, @)]
      [] key = <<"H", "E", "L", "P", "_", "C", "A", "S", "E", "S">> -> [stats EXCEPT !.HelpCases = ScanInto(value, @)]
      [] key = <<"H", "E", "L", "P", "_", "C", "A", "S", "E", "S", "_", "P", "R", "O", "C", "E", "S", "S", "E", "D">> -> [stats EXCEPT !.HelpCasesProcessed = ScanInto(value, @)]
      [] key = <<"S", "H", "E", "L", "T", "E", "R", "_", "U", "S", "E", "R", "S">> -> [stats EXCEPT !.ShelterUsers = ScanInto(value, @)]
      [] key = <<"M", "I", "S", "S", "I", "N", "G", "_", "P", "E", "R", "S", "O", "N", "S">> -> [stats EXCEPT !.MissingPersons = ScanInto(value, @)]
      [] key = <<"U", "N", "I", "D", "E", "N", "T", "I", "F", "I", "E", "D", "_", "B", "O", "D", "I", "E", "S">> -> [stats EXCEPT !.UnidentifiedBodies = ScanInto(value, @)]
      [] OTHER -> stats

RECURSIVE parseKeyStatisticsFrom(_, _, _)
parseKeyStatisticsFrom(stats, inSection, lines) ==
    IF lines = <<>> THEN stats
    ELSE LET line == Head(lines)
         IN  IF IsStartOf(line, KeyStatsSection) THEN parseKeyStatisticsFrom(stats, TRUE, Tail(lines))
             ELSE IF IsEndOf(line, KeyStatsSection) THEN stats
             ELSE IF inSection /\ IsKeyValueRow(line)
             THEN parseKeyStatisticsFrom(KeyStatisticsRow(stats, KeyOf(line), ValueOf(line)),
                                         TRUE, Tail(lines))
             ELSE parseKeyStatisticsFrom(stats, inSection, Tail(lines))

parseKeyStatistics(lines) == parseKeyStatisticsFrom(ZeroKeyStatistics, FALSE, lines)

\* a row of the sources table: not the header, not a separator (only
\* spaces, dashes, colons and pipes between the outer pipes), three cells
\* after the split
IsSourceRow(line) ==
    LET inner == Join(line.cells, <<"|">>)
    IN  /\ line.kind = "row"
        /\ ~Contains(LineText(line), <<"S", "O", "U", "R", "C", "E", "_", "N", "A", "M", "E">>)
        /\ ~(inner # Empty /\ \A i \in 1..Len(inner) : inner[i] \in {" ", "-", ":", "|"})
        /\ Len(line.cells) >= 2

SourceOfRow(line) ==
    LET raw   == IF Len(line.cells) >= 3 THEN TrimSpace(line.cells[3]) ELSE Empty
        front == IF HasPrefix(raw, <<"<">>) THEN Tail(raw) ELSE raw
        url   == IF front # Empty /\ front[Len(front)] = ">"
                 THEN SubSeq(front, 1, Len(front) - 1) ELSE front
    IN  [Name |-> TrimSpace(line.cells[1]), Title |-> TrimSpace(line.cells[2]), URL |-> url]

RECURSIVE parseSourcesSectionFrom(_, _)
parseSourcesSectionFrom(inSection, lines) ==
    IF lines = <<>> THEN <<>>
    ELSE LET line == Head(lines)
         IN  IF IsStartOf(line, SourcesSection) THEN parseSourcesSectionFrom(TRUE, Tail(lines))
             ELSE IF IsEndOf(line, SourcesSection) THEN <<>>
             ELSE (IF inSection /\ IsSourceRow(line) THEN <<SourceOfRow(line)>> ELSE <<>>)
                  \o parseSourcesSectionFrom(inSection, Tail(lines))

parseSourcesSection(lines) == parseSourcesSectionFrom(FALSE, lines)

RECURSIVE parseNotesFrom(_, _)
parseNotesFrom(inSection, lines) ==
    IF lines = <<>> THEN <<>>
    ELSE LET line    == Head(lines)
             trimmed == TrimSpace(LineText(line))
         IN  IF IsStartOf(line, NotesSection) THEN parseNotesFrom(TRUE, Tail(lines))
             ELSE IF IsEndOf(line, NotesSection) THEN <<>>
             ELSE (IF inSection /\ HasPrefix(trimmed, <<"-", " ">>)
                   THEN <<SubSeq(trimmed, 3, Len(trimmed))>> ELSE <<>>)
                  \o parseNotesFrom(inSection, Tail(lines))

parseNotes(lines) == parseNotesFrom(FALSE, lines)

\* A markdown text is kept as its lines and the metadata block after them;
\* metadata.Extract sees the lines as one token.
DocumentOf(markdown) ==
    LET x == Extract(<<Ch>> \o markdown.block)
    IN  [Metadata      |-> [present |-> x.found, meta |-> x.meta],
         BasicInfo     |-> parseBasicInfo(markdown.lines),
         FireCause     |-> parseSection(markdown.lines, FireCauseSection),
         Severity      |-> parseSection(markdown.lines, SeveritySection),
         Events        |-> ParseMarkdownTable(markdown.lines),
         KeyStatistics |-> parseKeyStatistics(markdown.lines),
         Sources       |-> parseSourcesSection(markdown.lines),
         Notes         |-> parseNotes(markdown.lines)]

\* the rows of the basic-info section that hold a DURATION
DurationRows(lines) ==
    {i \in 1..Len(lines) :
        /\ \E j \in 1..(i - 1) : IsStartOf(lines[j], BasicInfoSection)
        /\ IsKeyValueRow(lines[i])
        /\ KeyOf(lines[i]) = <<"D", "U", "R", "A", "T", "I", "O", "N">>}

\* a ParseDocument that hands the error of ParseDuration to its caller
ParseDocumentFailsOnDuration(markdown) ==
    LET bad == {i \in DurationRows(markdown.lines) :
                   ParseDuration(ValueOf(markdown.lines[i])).err # ErrNil}
    IN  IF bad # {}
        THEN [err |-> ErrInvalidDurationFormat, doc |-> <<>>]
        ELSE [err |-> ErrNil, doc |-> DocumentOf(markdown)]

ParseDocument(markdown) == [err |-> ErrNil, doc |-> DocumentOf(markdown)]

----------------------------------------------------------------------------
(* ParseDocument called on a text: each section absent or present *)

Durations == {<<"1", ":", "2", ":", "1", ":", "2">>, <<"1", ":", "2">>, <<"1", ":", "2", ":", "1">>, <<"x">>}

BasicInfoTexts ==
    {<<>>} \cup
    {<<SectionStart(BasicInfoSection), Row(<<<<"I", "N", "C", "I", "D", "E", "N", "T", "_", "I", "D">>, <<"F", "1">>>>),
       Row(<<<<"D", "U", "R", "A", "T", "I", "O", "N">>, d>>), SectionEnd(BasicInfoSection)>> : d \in Durations}

FireCauseTexts ==
    {<<>>, <<SectionStart(FireCauseSection), TextLine(<<"s", "c", "a", "f", "f", "o", "l", "d", " ">>), TextLine(<<"f", "i", "r", "e">>),
             SectionEnd(FireCauseSection)>>}

SeverityTexts ==
    {<<>>, <<SectionStart(SeveritySection), TextLine(<<"w", "o", "r", "s", "t">>), SectionEnd(SeveritySection)>>}

TimelineTexts ==
    {<<>>, <<StartMarker, HeaderRow, DataRow(Date1, Time1, Fire, CatA, SrcS, Empty), EndMarker>>}

KeyStatisticsTexts ==
    {<<>>, <<SectionStart(KeyStatsSection), Row(<<<<"F", "I", "N", "A", "L", "_", "D", "E", "A", "T", "H", "S">>, <<"1", "2">>>>),
             Row(<<<<"F", "I", "R", "E", "F", "I", "G", "H", "T", "E", "R", "_", "C", "A", "S", "U", "A", "L", "T", "I", "E", "S">>, <<"I", "N", "J", "U", "R", "E", "D", ":", "1", ",", "D", "E", "A", "D", ":", "2">>>>),
             SectionEnd(KeyStatsSection)>>}

SourcesTexts ==
    {<<>>, <<SectionStart(SourcesSection),
             Row(<<<<"S", "O", "U", "R", "C", "E", "_", "N", "A", "M", "E">>, <<"S", "O", "U", "R", "C", "E", "_", "T", "I", "T", "L", "E">>, <<"S", "O", "U", "R", "C", "E", "_", "U", "R", "L">>>>),
             Row(<<<<"-", "-", "-">>, <<"-", "-", "-">>, <<"-", "-", "-">>>>),
             Row(<<<<"H", "K", "0", "1">>, <<"t">>, <<"<", "u", ">">>>>), SectionEnd(SourcesSection)>>}

NotesTexts ==
    {<<>>, <<SectionStart(NotesSection), TextLine(<<"-", " ", "n", "1">>), TextLine(<<"n", "2">>),
             SectionEnd(NotesSection)>>}

BlockTexts == {<<>>, NewBlock("TRUE", 1, sha256(<<Ch>>))}

DocumentInit ==
    /\ \E b \in BasicInfoTexts, c \in FireCauseTexts, v \in SeverityTexts,
          t \in TimelineTexts, k \in KeyStatisticsTexts, s \in SourcesTexts,
          n \in NotesTexts, m \in BlockTexts :
          callIn = [fn |-> "ParseDocument",
                    arg |-> [lines |-> b \o c \o v \o t \o k \o s \o n, block |-> m]]
    /\ callOut = <<>>
    /\ CodecIdle /\ RowIdle /\ TableIdle /\ PairIdle /\ UploadIdle /\ CrawlIdle

ParseDocumentAct ==
    /\ callOut = <<>>
    /\ callOut' = ParseDocument(callIn.arg)
    /\ UNCHANGED callIn
    /\ UNCHANGED notCall

DocumentNext == ParseDocumentAct

SpecDocument == DocumentInit /\ [][DocumentNext]_vars

----------------------------------------------------------------------------
(* ParseDuration called on a text *)

MaxDurationLen == 7     \* characters of a duration text

DurationAlphabet == {"1", "2", ":", "x"}

DurationInit ==
    /\ \E s \in SeqsUpTo(DurationAlphabet, MaxDurationLen) :
          callIn = [fn |-> "ParseDuration", arg |-> s]
    /\ callOut = <<>>
    /\ CodecIdle /\ RowIdle /\ TableIdle /\ PairIdle /\ UploadIdle /\ CrawlIdle

ParseDurationAct ==
    /\ callOut = <<>>
    /\ callOut' = ParseDuration(callIn.arg)
    /\ UNCHANGED callIn
    /\ UNCHANGED notCall

DurationNext == ParseDurationAct

SpecDuration == DurationInit /\ [][DurationNext]_vars

----------------------------------------------------------------------------
(* parseCasualties applied to the text of a CASUALTIES cell *)

MaxTokens == 2     \* comma-separated tokens of a status-code text

CountTexts == {<<"1", "3">>, <<"x">>, <<"-", "1">>}

Breakdowns == {Empty, <<"(", "O", "N", "_", "S", "I", "T", "E", ":", "9", ",", "T", "R", "A", "N", "S", "I", "T", ":", "4", ")">>, <<"(", "D", "E", "A", "D", ":", "9", ",", "M", "I", "S", "S", "I", "N", "G", ":", "4", ")">>}

TokenTypes == {StatusTypes[1], StatusTypes[3], StatusTypes[4]}

\* TYPE:N or TYPE:N(SUB:a,SUB:b)
Token(ty, n, b) == ty \o <<":">> \o n \o b

StatusTokens == {Token(ty, n, b) : ty \in TokenTypes, n \in CountTexts, b \in Breakdowns}

StatusTexts == {Join(ts, <<",">>) : ts \in SeqsUpTo(StatusTokens, MaxTokens) \ {<<>>}}

LegacyTexts ==
    {Empty, StatusNone, <<" ">> \o StatusNone, StatusUpdate, <<"n", "o", "n", "e">>,
     <<"1", "2", "8", "U+6B7B", "7", "9", "U+50B7">>, <<"1", "2", "8", "U+6B7B", "U+FF0C", "3", " ", "U+5931", "U+8E64">>, <<"U+4E0B", "U+843D", "U+4E0D", "U+660E">>, <<"U+591A", "U+4EBA", "U+53D7", "U+50B7">>}

CasualtyTexts == StatusTexts \cup LegacyTexts

CasualtyInit ==
    /\ \E t \in CasualtyTexts : callIn = [fn |-> "parseCasualties", arg |-> t]
    /\ callOut = <<>>
    /\ CodecIdle /\ RowIdle /\ TableIdle /\ PairIdle /\ UploadIdle /\ CrawlIdle

ParseCasualtiesAct ==
    /\ callOut = <<>>
    /\ callOut' = parseCasualties(callIn.arg)
    /\ UNCHANGED callIn
    /\ UNCHANGED notCall

CasualtyNext == ParseCasualtiesAct

SpecCasualties == CasualtyInit /\ [][CasualtyNext]_vars

----------------------------------------------------------------------------
(* Texts that already carry metadata blocks: signed, verified, extracted *)

MaxPieces == 3     \* pieces of a text: single tokens and whole blocks

BlockA ==
    TagStart \o <<NL, ValidationLine("TRUE"), NL, HashLine(sha256(<<Ch>>)), NL,
                  VersionLine("1.0"), NL, TagEnd>>

BlockB ==
    TagStart \o <<NL, VersionLine("2.0"), NL, HashLine(sha256(<<Ch, Ch>>)), NL, TagEnd>>

Pieces == {<<a>> : a \in Alphabet} \cup {BlockA, BlockB}

RECURSIVE Flatten(_)
Flatten(ps) == IF ps = <<>> THEN <<>> ELSE Head(ps) \o Flatten(Tail(ps))

BlockTextsOf(n) == {Flatten(ps) : ps \in SeqsUpTo(Pieces, n)}

BlocksInit ==
    /\ \E t \in BlockTextsOf(MaxPieces) : docs = <<t>>
    /\ ops = <<>>
    /\ flag \in BOOLEAN
    /\ clock = 1
    /\ verdict = "none"
    /\ report = TRUE
    /\ RowIdle /\ TableIdle /\ PairIdle /\ UploadIdle /\ CallIdle /\ CrawlIdle

\* Extract called on the current text
ExtractAct ==
    /\ callOut = <<>>
    /\ callIn' = [fn |-> "Extract", arg |-> Last(docs)]
    /\ callOut' = Extract(Last(docs))
    /\ UNCHANGED codecVars
    /\ UNCHANGED <<rowVars, tableVars, pairVars, uploadVars, crawlVars>>

BlocksNext == SignAct \/ VerifyAct \/ ExtractAct

SpecBlocks == BlocksInit /\ [][BlocksNext]_vars

----------------------------------------------------------------------------
(* internal/config: RetryPolicy.GetRetryDelay                              *)
(* A float64 is kept as m * 2^e with m a natural number and e an integer;  *)
(* every product the loop forms on the inputs below is exact in float64.   *)

Float(m, e) == [m |-> m, e |-> e]

\* delayMs *= rp.BackoffMultiplier
Times(v, k) == Float(v.m * k.m, v.e + k.e)

\* the loop for i := 1; i < attempt; i++
RECURSIVE Backoff(_, _, _)
Backoff(v, k, n) == IF n <= 0 THEN v ELSE Backoff(Times(v, k), k, n - 1)

RECURSIVE Pow2(_)
Pow2(n) == IF n <= 0 THEN 1 ELSE 2 * Pow2(n - 1)

RECURSIVE BitLen(_)
BitLen(m) == IF m = 0 THEN 0 ELSE 1 + BitLen(m \div 2)

\* the value is below 2^63, so that int(delayMs) is defined
FitsInt64(v) == v.m = 0 \/ BitLen(v.m) + v.e <= 63

\* int(delayMs) truncates toward zero; the result is kept up to cap + 1,
\* which is all that the comparison with MaxDelayMs needs
RECURSIVE TruncUpTo(_, _)
TruncUpTo(v, cap) ==
    IF v.e <= 0 THEN LET t == v.m \div Pow2(0 - v.e) IN IF t > cap THEN cap + 1 ELSE t
    ELSE IF v.m > cap THEN cap + 1
    ELSE TruncUpTo(Float(2 * v.m, v.e - 1), cap)

\* The delays, in milliseconds, that GetRetryDelay can return.  When delayMs
\* is 2^63 or more the conversion int(delayMs) is implementation-dependent:
\* it yields the smallest int64 on amd64, which is not above MaxDelayMs and
\* whose product with time.Millisecond wraps to 0, and the largest int64
\* where the conversion saturates, which is capped to MaxDelayMs.
GetRetryDelay(rp, attempt) ==
    IF attempt <= 1 THEN {0}
    ELSE LET delayMs == Backoff(Float(rp.InitialDelayMs, 0), rp.BackoffMultiplier, attempt - 1)
         IN  IF ~FitsInt64(delayMs) THEN {0, rp.MaxDelayMs}
             ELSE IF TruncUpTo(delayMs, rp.MaxDelayMs) > rp.MaxDelayMs THEN {rp.MaxDelayMs}
             ELSE {TruncUpTo(delayMs, rp.MaxDelayMs)}

----------------------------------------------------------------------------
(* GetRetryDelay called for one attempt number after the other *)

MaxAttemptNumber == 18   \* largest attempt number handed to GetRetryDelay

\* 1.0, 1.5, 2.0 and 16.0
Multipliers == {Float(1, 0), Float(3, -1), Float(1, 1), Float(1, 4)}

\* with the multiplier 1.5 the initial delay is kept small, so that the
\* numerator of the product stays below 2^31
RetryPolicies ==
    {rp \in [InitialDelayMs : {0, 1, 3, 100}, MaxDelayMs : {0, 2, 1000},
             BackoffMultiplier : Multipliers] :
        rp.BackoffMultiplier = Float(3, -1) => rp.InitialDelayMs <= 3}

\* callOut[i] is the delay returned for attempt number i - 1
RetryInit ==
    /\ \E rp \in RetryPolicies : callIn = [fn |-> "GetRetryDelay", arg |-> rp]
    /\ callOut = <<>>
    /\ CodecIdle /\ RowIdle /\ TableIdle /\ PairIdle /\ UploadIdle /\ CrawlIdle

GetRetryDelayAct ==
    /\ Len(callOut) <= MaxAttemptNumber
    /\ \E d \in GetRetryDelay(callIn.arg, Len(callOut)) : callOut' = Append(callOut, d)
    /\ UNCHANGED callIn
    /\ UNCHANGED notCall

RetryNext == GetRetryDelayAct

SpecRetry == RetryInit /\ [][RetryNext]_vars

----------------------------------------------------------------------------
(* Tables with more than one row that NormalizeHeader takes as a header *)

\* a header row with the first two columns the other way round
HeaderRowSwapped == Row(<<ColTime, ColDate, ColEvent, ColCategory, ColSource, ColEnd>>)

RemapLines ==
    {StartMarker, EndMarker, HeaderRow, HeaderRowSwapped, SeparatorRow,
     DataRow(Date1, Time1, Fire, CatA, SrcS, Empty),
     DataRow(Date1, Time1, EventWord, CatA, SrcS, Empty)}

RemapInit ==
    /\ \E body \in SeqsUpTo(RemapLines, MaxLines) : tDoc = <<StartMarker>> \o body
    /\ tPos = 1
    /\ events = ParserStart.events
    /\ currentDate = ParserStart.currentDate
    /\ inTable = ParserStart.inTable
    /\ colMap = ParserStart.colMap
    /\ origin = <<>>
    /\ CodecIdle /\ RowIdle /\ PairIdle /\ UploadIdle /\ CallIdle /\ CrawlIdle

SpecRemap == RemapInit /\ [][TableNext]_vars

----------------------------------------------------------------------------
(* Texts with a block in the middle, extracted *)

MaxBefore == 2     \* tokens in front of the block
MaxAfter == 3      \* tokens behind the block

NestedInit ==
    /\ \E pre \in SeqsUpTo(Alphabet, MaxBefore), blk \in {BlockA, BlockB},
          post \in SeqsUpTo(Alphabet, MaxAfter) : docs = <<pre \o blk \o post>>
    /\ ops = <<>>
    /\ flag = FALSE
    /\ clock = 1
    /\ verdict = "none"
    /\ report = TRUE
    /\ RowIdle /\ TableIdle /\ PairIdle /\ UploadIdle /\ CallIdle /\ CrawlIdle

NestedNext == ExtractAct

SpecNested == NestedInit /\ [][NestedNext]_vars

----------------------------------------------------------------------------
(* internal/crawler: URLManager                                            *)
(* A source is kept by the fields NextURL reads: Key is FireID + ":" +     *)
(* Language, URL and File are "" when not configured.                      *)

ErrNoSourcesAvailable  == "no sources available"
ErrAllSourcesExhausted == "all sources exhausted"

\* SourceConfig.IsLocalFile
IsLocalFile(source) == source.File # ""

\* SourceConfig.GetAllURLs
GetAllURLs(source) == <<source.URL>> \o source.BackupURLs

SourceKeys == {"a", "b"}

NewURLManager ==
    [currentSourceIdx |-> 0, currentURLIdx |-> 0, isFallbackMode |-> FALSE,
     sourceAttempts |-> [k \in SourceKeys |-> 0]]

Failed(m, err) == [um |-> m, url |-> "", attemptNum |-> 0, err |-> err]

Handed(m, url, attemptNum) == [um |-> m, url |-> url, attemptNum |-> attemptNum, err |-> ErrNil]

\* NextURL and moveToNextSource call each other; each returns the new fields
\* of the manager together with the URL, the attempt number and the error
RECURSIVE NextURL(_, _, _)
RECURSIVE moveToNextSource(_, _, _)
NextURL(srcs, maxA, m) ==
    IF Len(srcs) = 0 THEN Failed(m, ErrNoSourcesAvailable)
    ELSE IF m.currentSourceIdx >= Len(srcs) THEN Failed(m, ErrAllSourcesExhausted)
    ELSE LET source     == srcs[m.currentSourceIdx + 1]
             sourceKey  == source.Key
             attemptNum == m.sourceAttempts[sourceKey] + 1
         IN  IF m.isFallbackMode
             THEN IF attemptNum > 1 THEN moveToNextSource(srcs, maxA, m)
                  ELSE Handed([m EXCEPT !.sourceAttempts[sourceKey] = attemptNum], source.File, 1)
             ELSE IF source.URL = "" /\ IsLocalFile(source)
             THEN IF attemptNum > 1 THEN moveToNextSource(srcs, maxA, m)
                  ELSE Handed([m EXCEPT !.sourceAttempts[sourceKey] = 1], source.File, 1)
             ELSE IF attemptNum > maxA
             THEN IF IsLocalFile(source)
                  THEN NextURL(srcs, maxA, [m EXCEPT !.isFallbackMode = TRUE,
                                                     !.sourceAttempts[sourceKey] = 0])
                  ELSE moveToNextSource(srcs, maxA, m)
             ELSE LET allURLs == GetAllURLs(source)
                      idx     == IF m.currentURLIdx >= Len(allURLs) THEN 0 ELSE m.currentURLIdx
                  IN  Handed([m EXCEPT !.currentURLIdx = idx + 1,
                                       !.sourceAttempts[sourceKey] = attemptNum],
                             allURLs[idx + 1], attemptNum)

\* a moveToNextSource that starts over with the first source, as Reset
\* does, when the last source is used up
moveToNextSourceWraps(srcs, maxA, m) ==
    LET next == [m EXCEPT !.currentSourceIdx = @ + 1, !.currentURLIdx = 0,
                          !.isFallbackMode = FALSE]
    IN  IF next.currentSourceIdx >= Len(srcs) THEN NextURL(srcs, maxA, NewURLManager)
        ELSE NextURL(srcs, maxA, next)

moveToNextSource(srcs, maxA, m) ==
    LET next == [m EXCEPT !.currentSourceIdx = @ + 1, !.currentURLIdx = 0,
                          !.isFallbackMode = FALSE]
    IN  IF next.currentSourceIdx >= Len(srcs) THEN Failed(next, ErrAllSourcesExhausted)
        ELSE NextURL(srcs, maxA, next)

----------------------------------------------------------------------------
(* NextURL called again and again on one manager *)

MaxSources == 2        \* enabled sources of a configuration
MaxAttemptsCap == 2    \* largest retryPolicy.MaxAttempts
MaxCallsAfter == 2     \* calls of NextURL made after the first error

\* the sources Validate accepts: a URL or a File, backup URLs only with a URL
SourceConfigs ==
    {src \in [Key : SourceKeys, URL : {"", "p"}, BackupURLs : {<<>>, <<"q">>}, File : {"", "f"}] :
        /\ src.URL # "" \/ src.File # ""
        /\ src.URL = "" => src.BackupURLs = <<>>}

ManagerInit ==
    /\ sources \in SeqsUpTo(SourceConfigs, MaxSources) \ {<<>>}
    /\ maxAttempts \in 1..MaxAttemptsCap
    /\ um = NewURLManager
    /\ returned = <<>>
    /\ crawlPc = "idle" /\ scrapeAttempt = 0 /\ requests = <<>>
    /\ CodecIdle /\ RowIdle /\ TableIdle /\ PairIdle /\ UploadIdle /\ CallIdle

Errors(log) == {i \in 1..Len(log) : log[i].err # ErrNil}

\* one call of NextURL; src is the index of the source the manager stands
\* on when the call returns
NextURLAct ==
    /\ Cardinality(Errors(returned)) <= MaxCallsAfter
    /\ LET r == NextURL(sources, maxAttempts, um)
       IN  /\ um' = r.um
           /\ returned' = Append(returned, [url |-> r.url, attemptNum |-> r.attemptNum,
                                            err |-> r.err, src |-> r.um.currentSourceIdx])
    /\ UNCHANGED <<sources, maxAttempts, crawlPc, scrapeAttempt, requests>>
    /\ UNCHANGED notCrawl

ManagerNext == NextURLAct

SpecManager == ManagerInit /\ [][ManagerNext]_vars

----------------------------------------------------------------------------
(* The fetch loop of main for one source, with the scraper's own retry loop *)

\* URLManager.IsCurrentSourceLocal
IsCurrentSourceLocal(srcs, m) ==
    IF m.currentSourceIdx < Len(srcs)
    THEN m.isFallbackMode \/ srcs[m.currentSourceIdx + 1].URL = ""
    ELSE FALSE

retryableStatuses == {503, 504, 429, 408}

isRetryableStatus(statusCode) == statusCode \in retryableStatuses

StatusOK == 200

\* what becomes of one request: client.Do fails and there is no status, or
\* the server answers with a status, and the body of a 200 response can be
\* read or not
Answers ==
    {[failed |-> TRUE, status |-> 0, readable |-> FALSE],
     [failed |-> FALSE, status |-> StatusOK, readable |-> TRUE],
     [failed |-> FALSE, status |-> StatusOK, readable |-> FALSE],
     [failed |-> FALSE, status |-> 404, readable |-> FALSE],
     [failed |-> FALSE, status |-> 503, readable |-> FALSE]}

\* main builds one manager for each enabled source, holding that source alone
CrawlInit ==
    /\ sources \in {<<src>> : src \in {c \in SourceConfigs : c.Key = "a"}}
    /\ maxAttempts \in 1..MaxAttemptsCap
    /\ um = NewURLManager
    /\ returned = <<>>
    /\ crawlPc = "loop" /\ scrapeAttempt = 0 /\ requests = <<>>
    /\ CodecIdle /\ RowIdle /\ TableIdle /\ PairIdle /\ UploadIdle /\ CallIdle

\* the head of the fetch loop: NextURL, then the choice between the local
\* file and ScrapeWithMetrics, whose loop starts with attempt 1
FetchNext ==
    /\ crawlPc = "loop"
    /\ LET r == NextURL(sources, maxAttempts, um)
       IN  /\ um' = r.um
           /\ returned' = Append(returned, [url |-> r.url, attemptNum |-> r.attemptNum,
                                            err |-> r.err, src |-> r.um.currentSourceIdx])
           /\ IF r.err # ErrNil
              THEN crawlPc' = "skipped" /\ scrapeAttempt' = 0
              ELSE IF IsCurrentSourceLocal(sources, r.um)
              THEN crawlPc' = "local" /\ scrapeAttempt' = 0
              ELSE crawlPc' = "scrape" /\ scrapeAttempt' = 1
    /\ UNCHANGED <<sources, maxAttempts, requests>>
    /\ UNCHANGED notCrawl

\* ReadLocalFileWithMetrics succeeds (break) or fails (continue)
ReadLocalFileAct ==
    /\ crawlPc = "local"
    /\ \E ok \in BOOLEAN : crawlPc' = IF ok THEN "fetched" ELSE "loop"
    /\ UNCHANGED <<sources, maxAttempts, um, returned, scrapeAttempt, requests>>
    /\ UNCHANGED notCrawl

\* one turn of the loop of ScrapeWithMetrics: the request, and what the loop
\* does with the answer. Only a readable 200 response returns; every other
\* answer reaches continue, and the loop ends when attempt passes MaxAttempts
ScrapeRequest ==
    /\ crawlPc = "scrape"
    /\ scrapeAttempt <= maxAttempts
    /\ \E answer \in Answers :
        /\ requests' = Append(requests, [url |-> returned[Len(returned)].url,
                                         failed |-> answer.failed,
                                         status |-> answer.status,
                                         call |-> Len(returned),
                                         attempt |-> scrapeAttempt])
        /\ IF ~answer.failed /\ answer.status = StatusOK /\ answer.readable
           THEN crawlPc' = "fetched" /\ scrapeAttempt' = 0
           ELSE IF scrapeAttempt + 1 <= maxAttempts
           THEN crawlPc' = "scrape" /\ scrapeAttempt' = scrapeAttempt + 1
           ELSE crawlPc' = "loop" /\ scrapeAttempt' = 0
    /\ UNCHANGED <<sources, maxAttempts, um, returned>>
    /\ UNCHANGED notCrawl

CrawlNext == FetchNext \/ ReadLocalFileAct \/ ScrapeRequest

SpecCrawl == CrawlInit /\ [][CrawlNext]_vars

----------------------------------------------------------------------------
(* Claims about the row parser *)

EventKey(e) == e.Date \o <<"|">> \o normalizeTime(e.Time) \o <<"|">> \o e.Category

\* C6: every event ID emitted by the row parser is the first 12 hex
\* characters of SHA-256 over date + "|" + normalizeTime(time) + "|" +
\* category, so two rows with equal date, normalized time and category get
\* equal IDs whatever their description, sources, media or end flag.
C6_EventIDFormula ==
    rowOut # <<>> =>
        /\ \A r \in {rowOut.a, rowOut.b} :
              r.err = ErrNil => r.event.ID = [sha256 |-> EventKey(r.event), hex |-> 12]
        /\ (rowOut.a.err = ErrNil /\ rowOut.b.err = ErrNil
            /\ EventKey(rowOut.a.event) = EventKey(rowOut.b.event))
               => rowOut.a.event.ID = rowOut.b.event.ID

\* two accepted rows that agree on date, normalized time and category and
\* differ in their TIME text, description and end flag
C6_Witness ==
    /\ rowOut # <<>>
    /\ rowOut.a.err = ErrNil /\ rowOut.b.err = ErrNil
    /\ EventKey(rowOut.a.event) = EventKey(rowOut.b.event)
    /\ rowOut.a.event.Time # rowOut.b.event.Time
    /\ rowOut.a.event.Description # rowOut.b.event.Description
    /\ rowOut.a.event.IsCategoryEnd # rowOut.b.event.IsCategoryEnd
    /\ rowOut.a.event.ID = rowOut.b.event.ID

\* C7: two documents with the same rows except for the text of the
\* Description, Sources and media cells parse to the same number of events,
\* and the i-th events have equal IDs.
C7_TranslationSameIDs ==
    parsed # <<>> /\ parsed.done = {"a", "b"} =>
        /\ Len(parsed.a) = Len(parsed.b)
        /\ \A i \in 1..Len(parsed.a) : i <= Len(parsed.b) => parsed.a[i].ID = parsed.b[i].ID

\* the TIME text is H:MM or HH:MM and nothing else
IsClockTime(s) ==
    \/ Len(s) = 4 /\ PatAt(s, 1, <<"\\d", ":", "\\d", "\\d">>)
    \/ Len(s) = 5 /\ PatAt(s, 1, <<"\\d", "\\d", ":", "\\d", "\\d">>)

\* C10: a data row is accepted only if its TIME cell is present and is an
\* HH:MM time (decorative suffix stripped) or one of the sentinels
\* TIME_ALL_DAY / TIME_ONGOING; every other TIME cell value is rejected.
C10_TimeMandatory ==
    rowOut # <<>> =>
        LET timeCell == getCell(rowIn.a, rowIn.map, ColTime)
        IN  rowOut.a.err = ErrNil =>
               /\ timeCell # Empty
               /\ \/ timeCell \in {TimeAllDay, TimeOngoing}
                  \/ IsClockTime(normalizeTime(timeCell))

----------------------------------------------------------------------------
(* Claims about the running date *)

DateCellOf(line) == TrimSpace(line.cells[1])

IsISODate(s) == Len(s) = 10 /\ PatAt(s, 1, ISODatePattern)

\* the header row that governs line r: the last one above it
HeaderAbove(r) == Max({0} \cup {j \in 1..(r - 1) : IsHeaderLine(tDoc[j])})

\* the last start or end marker above line r
MarkerAbove(r) == Max({0} \cup {j \in 1..(r - 1) : tDoc[j].kind \in {"start", "end"}})

\* the data rows of the table of line r, down to r
RowsAbove(r) ==
    {j \in (Max({HeaderAbove(r), MarkerAbove(r)}) + 1)..r :
        IsRowLine(tDoc[j]) /\ ~IsHeaderLine(tDoc[j])}

\* C9: inside a TIMELINE_TABLE each emitted event's Date is the DATE cell of the nearest
\* row at or above it whose DATE cell is ISO-formatted.
C9_NearestDatedRow ==
    \A k \in 1..Len(events) :
        LET dated == {j \in RowsAbove(origin[k]) : IsISODate(DateCellOf(tDoc[j]))}
        IN  dated # {} => events[k].Date = DateCellOf(tDoc[Max(dated)])

----------------------------------------------------------------------------
(* Claims about the upload *)

RecordsOf(eventId) == {j \in 1..Len(cms) : cms[j].eventId = eventId}

\* C8: uploading through the worker pool is an idempotent upsert per event
\* ID: under every interleaving of the find and create-or-update steps, when
\* Upload returns the CMS holds at most one record per event ID, and exactly
\* one for every event whose upload did not fail.
C8_IdempotentUpsert ==
    mainPc = "done" =>
        \A i \in Workers :
            /\ Cardinality(RecordsOf(timeline[i])) <= 1
            /\ ~outcome[i].err => Cardinality(RecordsOf(timeline[i])) = 1

----------------------------------------------------------------------------
(* Claims about dropped rows *)

\* the parser state when line j is about to be read
StateBefore(j) == ParseFrom(ParserStart, SubSeq(tDoc, 1, j - 1))

\* line j is a data row of a table with a column map, and its parse failed
IsDroppedRow(j) ==
    LET st == StateBefore(j)
    IN  /\ LineKind(tDoc[j], st.inTable) = "data"
        /\ st.colMap # NilMap
        /\ parseTableRow(CleanCells(tDoc[j].cells), st.currentDate, st.colMap).err # ErrNil

WithoutLine(doc, j) == SubSeq(doc, 1, j - 1) \o SubSeq(doc, j + 1, Len(doc))

\* C11: a table row that fails validation is dropped without affecting any
\* other row: the events of the document, in order, are those of the
\* document with the bad row taken out.
C11_BadRowDropped ==
    tPos > Len(tDoc) =>
        \A j \in 1..Len(tDoc) :
            IsDroppedRow(j) => events = ParseMarkdownTable(WithoutLine(tDoc, j))

\* a document read to its end, with a dropped row between two accepted rows
C11_Witness ==
    /\ tPos > Len(tDoc)
    /\ Len(origin) >= 2
    /\ \E j \in 1..Len(tDoc) :
          origin[1] < j /\ j < origin[2] /\ IsDroppedRow(j)

----------------------------------------------------------------------------
(* Claims about documents without table markers *)

NoMarkers(doc) == \A j \in 1..Len(doc) : doc[j].kind \notin {"start", "end"}

\* line j is a pipe row that is neither a separator nor a header, and whose
\* second cell (the time, by position) is a valid time
IsPositionalRow(j) ==
    /\ IsRowLine(tDoc[j])
    /\ ~IsHeaderLine(tDoc[j])
    /\ Len(tDoc[j].cells) >= 2
    /\ isValidTime(TrimSpace(tDoc[j].cells[2]))

\* the date of the last date heading above line j, empty when there is none
HeadingDateAbove(j) ==
    LET above == {k \in 1..(j - 1) : tDoc[k].kind = "heading"}
    IN  IF above = {} THEN Empty ELSE HeadingDate(tDoc[Max(above)])

\* C13: in a document without TIMELINE_TABLE markers every table row is
\* still parsed into an event by the positional cell layout; the event's
\* Date is the row's first cell when that is an ISO date, and the date of
\* the most recent date heading otherwise.
C13_LegacyRowsParsed ==
    (tPos > Len(tDoc) /\ NoMarkers(tDoc)) =>
        \A j \in 1..Len(tDoc) :
            IsPositionalRow(j) =>
                \E i \in 1..Len(origin) :
                    /\ origin[i] = j
                    /\ LET d == TrimSpace(tDoc[j].cells[1])
                       IN  events[i].Date = IF PatFound(d, ISODatePattern)
                                            THEN d ELSE HeadingDateAbove(j)

----------------------------------------------------------------------------
(* Claims about casualties *)

\* C14: parseCasualties returns Status STATUS_UPDATE exactly when at least
\* one Item was extracted, the empty Status when the text is non-empty and
\* no Item matched, and Status STATUS_NONE with no Items for the sentinel
\* text STATUS_NONE; it returns no other Status.
C14_StatusValues ==
    callOut # <<>> =>
        /\ callOut.Status = StatusUpdate <=> Len(callOut.Items) > 0
        /\ (callIn.arg # Empty /\ callIn.arg # StatusNone /\ callOut.Items = <<>>)
               => callOut.Status = Empty
        /\ callIn.arg = StatusNone => (callOut.Status = StatusNone /\ callOut.Items = <<>>)
        /\ callOut.Status \in {StatusUpdate, Empty, StatusNone}

\* C15: in the CasualtyData that parseCasualties returns every Item has a
\* Count of at least 0, and Items is empty whenever Status is empty or
\* STATUS_NONE.
C15_CountsAndEmptyItems ==
    callOut # <<>> =>
        /\ \A i \in 1..Len(callOut.Items) : callOut.Items[i].Count >= 0
        /\ callOut.Status \in {Empty, StatusNone} => callOut.Items = <<>>

\* a text with a negative count after one type and a count after another:
\* only the second yields an Item
C15_Witness ==
    /\ callOut # <<>>
    /\ callIn.arg = Join(<<Token(StatusTypes[1], <<"-", "1">>, Empty),
                           Token(StatusTypes[3], <<"1", "3">>, Empty)>>, <<",">>)
    /\ callOut.Items = <<[Type |-> StatusTypes[3], Count |-> 13]>>

\* C16: a token TYPE:N(SUB:a,SUB:b) of the status-code grammar yields the
\* one Item {TYPE, N}, whatever keys and numbers stand inside the
\* parentheses.
C16_BreakdownIgnored ==
    callOut # <<>> =>
        \A ty \in TokenTypes, b \in Breakdowns \ {Empty} :
            callIn.arg = Token(ty, <<"1", "3">>, b) =>
                callOut.Items = <<[Type |-> ty, Count |-> 13]>>

----------------------------------------------------------------------------
(* Claims about texts that carry blocks *)

\* C17: Sign replaces the metadata wholesale: its output is the clean
\* content followed by exactly one freshly built block, whose VALIDATION is
\* the validated argument and whose HASH is the hash of the clean content;
\* no field of a block that stood in the text, VERSION included, is left in
\* the output.
C17_SignReplacesMetadata ==
    (ops # <<>> /\ Last(ops) = "sign") =>
        LET before == docs[Len(docs) - 1]
            after  == Last(docs)
            clean  == Extract(before).clean
            block  == SubSeq(after, Len(clean) + 1, Len(after))
            fields == SelectSeq(after, LAMBDA tok : tok.k \in KeyNames)
        IN  /\ after = clean \o block
            /\ block = NewBlock(IF flag THEN "TRUE" ELSE "FALSE", clock - 1, CalculateHash(clean))
            /\ fields = <<ValidationLine(IF flag THEN "TRUE" ELSE "FALSE"),
                          LastModifyLine(clock - 1), HashLine(CalculateHash(clean))>>
            /\ Extract(after).meta.Version = ""

\* a text whose block holds a VERSION has been signed
C17_Witness ==
    /\ ops = <<"sign">>
    /\ Extract(docs[1]).meta.Version = "1.0"
    /\ Extract(docs[1]).clean = <<Ch>>
    /\ Extract(Last(docs)).meta.Version = ""

\* the text up to the end of its first block
UpToFirstBlock(t) == SubSeq(t, 1, FindFrom(t, 1).e)

\* C18: of several blocks in a text Extract honours the first alone: the
\* Metadata is that of the text cut after its first block, and so is the
\* stored hash Verify compares against, whatever later blocks hold.
C18_FirstBlockOnly ==
    /\ callOut # <<>> =>
           (callOut.found =>
               callOut.meta = Extract(UpToFirstBlock(callIn.arg)).meta)
    /\ (ops # <<>> /\ Last(ops) = "verify") =>
           LET d      == Last(docs)
               stored == Extract(UpToFirstBlock(d)).meta.Hash
           IN  (Extract(d).found /\ stored # <<>>) =>
                   (verdict = ErrNone <=> stored = CalculateHash(d))

\* a text of two blocks with different fields has been extracted and
\* verified: the first block's hash is the right one, the second's is not
C18_Witness ==
    /\ docs[1] = <<Ch>> \o BlockA \o BlockB
    /\ callOut # <<>> /\ callIn.arg = docs[1]
    /\ callOut.meta.Version = "1.0"
    /\ ops = <<"verify">> /\ verdict = ErrNone

----------------------------------------------------------------------------
(* Claims about durations *)

\* C20: parseDuration accepts exactly the texts of four colon-separated
\* components (Days, Hours, Minutes, Seconds) or of two (Hours, Minutes);
\* a text with any other number of components fails with
\* InvalidDurationFormat.
C20_DurationFormats ==
    callOut # <<>> =>
        LET parts == Split(callIn.arg, ":")
            d == callOut.duration
        IN  /\ Len(parts) = 4 =>
                  /\ callOut.err = ErrNil
                  /\ d.Days = ScanInt(parts[1]) /\ d.Hours = ScanInt(parts[2])
                  /\ d.Minutes = ScanInt(parts[3]) /\ d.Seconds = ScanInt(parts[4])
            /\ Len(parts) = 2 =>
                  /\ callOut.err = ErrNil
                  /\ d.Days = 0 /\ d.Hours = ScanInt(parts[1])
                  /\ d.Minutes = ScanInt(parts[2]) /\ d.Seconds = 0
            /\ Len(parts) \notin {2, 4} => callOut.err = ErrInvalidDurationFormat

\* 1:2:1:2 parsed as one day, two hours, one minute, two seconds
C20_Witness ==
    /\ callOut # <<>>
    /\ callIn.arg = <<"1", ":", "2", ":", "1", ":", "2">>
    /\ callOut.err = ErrNil
    /\ callOut.duration.Days = 1 /\ callOut.duration.Hours = 2
    /\ callOut.duration.Minutes = 1 /\ callOut.duration.Seconds = 2

----------------------------------------------------------------------------
(* Claims about whole documents *)

HasSection(lines, name) == \E i \in 1..Len(lines) : IsStartOf(lines[i], name)

\* C12: parseDocument returns a Document and no error for every input
\* text; each section that is absent from the text leaves its fields at
\* their zero values.
C12_MissingSectionsZero ==
    callOut # <<>> =>
        LET lines == callIn.arg.lines
            doc   == callOut.doc
        IN  /\ callOut.err = ErrNil
            /\ callIn.arg.block = <<>> => ~doc.Metadata.present
            /\ ~HasSection(lines, BasicInfoSection) => doc.BasicInfo = ZeroBasicInfo
            /\ ~HasSection(lines, FireCauseSection) => doc.FireCause = Empty
            /\ ~HasSection(lines, SeveritySection) => doc.Severity = Empty
            /\ StartMarker \notin {lines[i] : i \in 1..Len(lines)} => doc.Events = <<>>
            /\ ~HasSection(lines, KeyStatsSection) => doc.KeyStatistics = ZeroKeyStatistics
            /\ ~HasSection(lines, SourcesSection) => doc.Sources = <<>>
            /\ ~HasSection(lines, NotesSection) => doc.Notes = <<>>

\* a text with a basic-info section whose DURATION is rejected, a timeline
\* table and notes, and without key statistics, sources and metadata
C12_Witness ==
    /\ callOut # <<>>
    /\ callOut.err = ErrNil
    /\ callOut.doc.BasicInfo.Duration.Raw = <<"1", ":", "2", ":", "1">>
    /\ Len(callOut.doc.Events) = 1
    /\ Len(callOut.doc.Notes) = 1
    /\ ~HasSection(callIn.arg.lines, KeyStatsSection)
    /\ ~HasSection(callIn.arg.lines, SourcesSection)
    /\ callOut.doc.KeyStatistics = ZeroKeyStatistics
    /\ callOut.doc.Sources = <<>>
    /\ ~callOut.doc.Metadata.present

\* the DURATION text that parseBasicInfo reads last is not a valid duration
HasInvalidDuration(lines) ==
    /\ DurationRows(lines) # {}
    /\ Len(Split(ValueOf(lines[Max(DurationRows(lines))]), ":")) \notin {2, 4}

\* C19: if the DURATION value of the basic-info section is not a valid
\* duration text, the format error is propagated to the caller of
\* parseDocument.
C19_DurationErrorPropagated ==
    callOut # <<>> /\ HasInvalidDuration(callIn.arg.lines) => callOut.err # ErrNil

\* C19 amended: if the DURATION value is not a valid duration text,
\* parseDocument returns no error and the Duration holds the raw text with
\* Days, Hours, Minutes and Seconds zero.
C19_DurationErrorSwallowed ==
    callOut # <<>> /\ HasInvalidDuration(callIn.arg.lines) =>
        LET lines == callIn.arg.lines
            value == ValueOf(lines[Max(DurationRows(lines))])
        IN  /\ callOut.err = ErrNil
            /\ callOut.doc.BasicInfo.Duration = [ZeroDuration EXCEPT !.Raw = value]

\* a document whose DURATION is the one-component text x
C19_Witness ==
    /\ callOut # <<>>
    /\ HasInvalidDuration(callIn.arg.lines)
    /\ callOut.err = ErrNil
    /\ callOut.doc.BasicInfo.Duration.Raw = <<"x">>
    /\ callOut.doc.BasicInfo.IncidentID # Empty

----------------------------------------------------------------------------
(* Claims about the retry delay *)

\* min(InitialDelayMs x BackoffMultiplier^(attempt - 1), MaxDelayMs) in whole
\* milliseconds
ExpectedDelay(rp, attempt) ==
    LET product == Backoff(Float(rp.InitialDelayMs, 0), rp.BackoffMultiplier, attempt - 1)
        whole   == TruncUpTo(product, rp.MaxDelayMs)
    IN  IF whole > rp.MaxDelayMs THEN rp.MaxDelayMs ELSE whole

\* C21: GetRetryDelay(attempt) is 0 for attempt <= 1 and
\* min(InitialDelayMs x BackoffMultiplier^(attempt - 1), MaxDelayMs)
\* milliseconds for every attempt >= 2, so the delay lies between 0 and
\* MaxDelayMs and never decreases as the attempt number grows.
C21_RetryDelay ==
    \A i \in 1..Len(callOut) :
        LET attempt == i - 1
            rp      == callIn.arg
        IN  /\ attempt <= 1 => callOut[i] = 0
            /\ attempt >= 2 => callOut[i] = ExpectedDelay(rp, attempt)
            /\ 0 <= callOut[i] /\ callOut[i] <= rp.MaxDelayMs
            /\ i > 1 => callOut[i - 1] <= callOut[i]

----------------------------------------------------------------------------
(* Claims about the column map *)

\* C22: inside a table the column map changes only at a start marker, which
\* resets it, and at the header row seen while no map is set; data rows and
\* separator rows never change it.
C22_MapChangesOnlyAtHeader ==
    [][colMap' # colMap =>
          \/ NextLine.kind = "start" /\ colMap' = NilMap
          \/ IsHeaderLine(NextLine) /\ colMap = NilMap]_vars

----------------------------------------------------------------------------
(* Claims about the clean content *)

\* C23: Extract is idempotent and its clean content holds no metadata:
\* Extract applied to the clean content of any text finds no block and
\* returns that clean content unchanged.
C23_ExtractIdempotent ==
    callOut # <<>> =>
        LET again == Extract(callOut.clean)
        IN  ~again.found /\ again.clean = callOut.clean

----------------------------------------------------------------------------
(* Claims about the URL manager *)

\* the calls of NextURL that returned something of source number i (from 0)
ReturnsOf(i) == {j \in 1..Len(returned) : returned[j].err = ErrNil /\ returned[j].src = i}

URLReturnsOf(i) == {j \in ReturnsOf(i) : returned[j].url # sources[i + 1].File}

FileReturnsOf(i) == {j \in ReturnsOf(i) : returned[j].url = sources[i + 1].File}

\* the manager has left source number i behind
Passed(i) == um.currentSourceIdx > i

\* C24: for a source that has a URL, successive calls of NextURL return a
\* URL of that source for the attempt numbers 1..MaxAttempts and never more
\* than MaxAttempts times; after that its local file is returned exactly
\* once if one is configured, and then the manager moves on.
C24_AttemptsThenFile ==
    \A i \in 0..(Len(sources) - 1) :
        LET source == sources[i + 1]
            urls   == URLReturnsOf(i)
            files  == FileReturnsOf(i)
        IN  source.URL # "" =>
                /\ Cardinality(urls) <= maxAttempts
                /\ \A j \in urls :
                      /\ returned[j].url \in {source.URL} \cup {source.BackupURLs[b] : b \in 1..Len(source.BackupURLs)}
                      /\ returned[j].attemptNum = Cardinality({h \in urls : h <= j})
                /\ \A j \in files : \A h \in urls : h < j
                /\ files # {} => Cardinality(urls) = maxAttempts
                /\ Cardinality(files) <= 1
                /\ Passed(i) =>
                      /\ {returned[j].attemptNum : j \in urls} = 1..maxAttempts
                      /\ Cardinality(files) = IF IsLocalFile(source) THEN 1 ELSE 0

\* C25: NextURL called repeatedly without Reset returns
\* ErrAllSourcesExhausted after at most MaxAttempts + 1 successful returns
\* per enabled source, and every later call returns ErrAllSourcesExhausted
\* as well.
C25_Exhaustion ==
    /\ \A i \in 0..(Len(sources) - 1) : Cardinality(ReturnsOf(i)) <= maxAttempts + 1
    /\ \A j \in 1..Len(returned) :
          /\ returned[j].err \in {ErrNil, ErrAllSourcesExhausted}
          /\ (returned[j].err # ErrNil /\ j < Len(returned)) =>
                 returned[j + 1].err = ErrAllSourcesExhausted
    /\ Len(returned) > Len(sources) * (maxAttempts + 1) =>
          returned[Len(sources) * (maxAttempts + 1) + 1].err = ErrAllSourcesExhausted

\* two sources, each with a URL and a file, have been handed out
\* MaxAttempts + 1 times each, and NextURL has failed twice since
C25_Witness ==
    /\ Len(sources) = 2
    /\ \A i \in 0..1 : Cardinality(ReturnsOf(i)) = maxAttempts + 1
    /\ Cardinality(Errors(returned)) = 2

\* C26: for any list of enabled sources, also when sources share FireID
\* and Language, every source has been returned by NextURL at least once,
\* in the order of the configuration, before NextURL first returns
\* ErrAllSourcesExhausted.
C26_EverySourceTried ==
    /\ Errors(returned) # {} =>
          \A i \in 0..(Len(sources) - 1) :
              \E j \in ReturnsOf(i) : j < Min(Errors(returned))
    /\ \A j, h \in 1..Len(returned) :
          (j < h /\ returned[j].err = ErrNil /\ returned[h].err = ErrNil) =>
              returned[j].src <= returned[h].src

\* C27: inside one call of ScrapeWithMetrics a response whose status is
\* neither 200 nor retryable (503, 504, 429, 408) is the last request of
\* that call: no further request is sent
C27_NoRetryOnOtherStatus ==
    \A i \in 1..Len(requests) - 1 :
        (/\ ~requests[i].failed
         /\ requests[i].status # StatusOK
         /\ ~isRetryableStatus(requests[i].status))
            => requests[i + 1].call # requests[i].call

\* C28: the HTTP requests sent for one source, over every attempt the URL
\* manager hands out and every retry inside the scraper, are never more than
\* MaxAttempts
C28_RequestsWithinMaxAttempts == Len(requests) <= maxAttempts

\* C29: when Upload has returned without error, every goroutine has ended,
\* EventsCreated + EventsUpdated + len(Errors) = len(Events), Errors holds
\* one entry for each event whose upload failed and no more, and every
\* other event is stored in the CMS
C29_EveryEventCounted ==
    mainPc = "done" =>
        /\ result.EventsCreated + result.EventsUpdated + result.Errors = Len(timeline)
        /\ result.Errors = Cardinality({i \in Workers : outcome[i].err})
        /\ \A i \in Workers :
              /\ pc[i] = "done"
              /\ ~outcome[i].err => \E j \in 1..Len(cms) : cms[j].eventId = timeline[i]

\* an Upload of three events has returned with one failure, one creation
\* and one update
C29_Witness ==
    /\ mainPc = "done"
    /\ Len(timeline) = 3
    /\ result = [EventsCreated |-> 1, EventsUpdated |-> 1, Errors |-> 1]

\* the goroutines that hold a slot of the semaphore; uploadEvent runs only
\* in the steps find and write
Holding == {i \in Workers : pc[i] \in {"find", "write", "lock", "record", "release"}}

\* C30: at every moment at most maxConcurrentUploads goroutines are between
\* sem <- struct{}{} and <-sem, so at most that many entity uploads run
C30_AtMostFiveUploads ==
    /\ Cardinality(Holding) <= maxConcurrentUploads
    /\ sem = Cardinality(Holding)

\* five uploads run and a sixth goroutine waits for a slot
C30_Witness ==
    /\ Cardinality({i \in Workers : pc[i] \in {"find", "write"}}) = maxConcurrentUploads
    /\ \E i \in Workers : pc[i] = "start"

====
